---- MODULE Spec2Model ----
(***************************************************************************)
(* Model of the agentic Kubernetes monitor (src/agentic-ai): the Memory   *)
(* store, the four-tier Planner, the plan Executor and the monitoring     *)
(* loop of AgenticMonitor.run.                                             *)
(*                                                                         *)
(* Conventions.  A Python string that the code takes apart (an image      *)
(* reference, a pod name) is a sequence of one-character strings or of    *)
(* '-'-separated segments.  A dict key that may be missing is an option:  *)
(* <<>> when the key is absent, <<v>> when it is present with value v.    *)
(***************************************************************************)
EXTENDS Integers, Sequences, FiniteSets, TLC

VARIABLES
    memory,      \* Memory.memory: [attempts |-> Seq, patterns |-> key -> pattern]
    file,        \* agentic_memory.json: <<>> when absent, <<text>> when present
    pc,          \* position of AgenticMonitor.run / of the planner harness
    iteration,   \* run(): iteration counter
    issues,      \* run(): the Issues observed in the current cycle
    idx,         \* run(): index of the Issue being handled (1-based)
    context,     \* run(): gather_context() of the current Issue
    plan,        \* run(): the Plan returned by create_plan
    planInfo,    \* create_plan's last call: its Plan, tier, reply and consultations
    stepIdx,     \* execute_plan / learn: index of the current Step (1-based)
    calls,       \* control-plane mutating calls issued by the current execute_plan
    applied,     \* per Step of the current execute_plan: "ok", "failed", "nocall"
    execResult,  \* execute_plan: "none", "running", "true", "false", "raised"
    summaries,   \* number of session summaries printed
    auto_remediate, \* AgenticMonitor.auto_remediate (main(): not --no-auto)
    ret,         \* Memory harness: the last call of the Memory API and its result
    env          \* main(): OPENAI_API_KEY is set (key), --fresh was given (fresh)

vars == <<memory, file, pc, iteration, issues, idx, context, plan, planInfo,
          stepIdx, calls, applied, execResult, summaries, auto_remediate, ret, env>>

----------------------------------------------------------------------------
(* Bounds of the model *)

MaxAttempts == 2   \* planner and Memory harness: records in the Attempt log
MaxCycles == 2     \* run(): cycles explored
MaxEntries == 2    \* entries of a JSON array in a reasoning-service reply
MaxContainers == 2 \* observe harness: container statuses of one pod
MaxSteps == 2      \* executor harness: Steps of a Plan
MaxLog == 3        \* log-based flow: lines of remediation.log

----------------------------------------------------------------------------
(* Options and small helpers *)

None == <<>>
Some(v) == <<v>>
IsSome(o) == Len(o) = 1
Get(o) == o[1]

\* dict.get(key, default)
GetOr(o, default) == IF IsSome(o) THEN Get(o) ELSE default

Last(s) == s[Len(s)]

RECURSIVE FilterSeq(_, _)
\* [x for x in s if x \in keep]
FilterSeq(s, keep) ==
    IF s = <<>> THEN <<>>
    ELSE IF Head(s) \in keep THEN <<Head(s)>> \o FilterSeq(Tail(s), keep)
         ELSE FilterSeq(Tail(s), keep)

----------------------------------------------------------------------------
(* Python str operations on character sequences *)

\* s[i:i+len(sub)] == sub
MatchAt(s, sub, i) ==
    /\ i + Len(sub) - 1 <= Len(s)
    /\ \A j \in 1..Len(sub) : s[i + j - 1] = sub[j]

\* sub in s
Contains(s, sub) == \E i \in 1..(Len(s) + 1) : MatchAt(s, sub, i)

RECURSIVE ReplaceFrom(_, _, _, _)
\* str.replace, scanning left to right from position i, non-overlapping
ReplaceFrom(s, old, new, i) ==
    IF i > Len(s) THEN <<>>
    ELSE IF MatchAt(s, old, i) THEN new \o ReplaceFrom(s, old, new, i + Len(old))
         ELSE <<s[i]>> \o ReplaceFrom(s, old, new, i + 1)

\* s.replace(old, new), old non-empty
Replace(s, old, new) == ReplaceFrom(s, old, new, 1)

\* c.lower() for the characters the model uses
LowerChar(c) ==
    CASE c = "N" -> "n"
      [] c = "R" -> "r"
      [] c = "L" -> "l"
      [] OTHER -> c

\* s.lower()
Lower(s) == [i \in 1..Len(s) |-> LowerChar(s[i])]

----------------------------------------------------------------------------
(* Issues, Steps and their details *)

\* AgenticMonitor.namespace (main(): --namespace default)
Namespace == "agentic-demo"

VALID_ACTIONS == {"restart_pod", "update_env", "increase_memory", "fix_image_name"}

\* pod names, as their '-'-separated segments
PodWeb == <<"web", "7d9f", "x2k">>
PodDb == <<"db", "0">>

\* pod_name.rsplit('-', 2)[0]: at most two segments are split off the right
\* end, and the first piece always keeps at least one segment
DeploymentOf(pod_name) ==
    SubSeq(pod_name, 1, IF Len(pod_name) > 2 THEN Len(pod_name) - 2 ELSE 1)

\* memory.Issue (timestamp and container_name play no part in any decision)
MkIssue(pod, status, reason, message) ==
    [pod_name |-> pod, namespace |-> Namespace, status |-> status,
     reason |-> reason, message |-> message]

\* a details dict with none of the keys the code reads or writes
NoDetails ==
    [deployment_name |-> None, new_image |-> None, env_vars |-> None,
     new_limit |-> None, pod_name |-> None, namespace |-> None]

\* a JSON object / Python dict with the four keys of a Step, each optional
MkStep(action, details, reasoning, confidence) ==
    [kind |-> "object", action |-> action, details |-> details,
     reasoning |-> reasoning, confidence |-> confidence]

----------------------------------------------------------------------------
(* Planner tier 1: heuristic detectors *)

\* planner.IMAGE_TYPO_MAP, in the dict's insertion order
IMAGE_TYPO_MAP == <<
    [typo |-> <<"a","p","l","i","n","e">>,         correct |-> <<"a","l","p","i","n","e">>],
    [typo |-> <<"l","a","t","s","t">>,             correct |-> <<"l","a","t","e","s","t">>],
    [typo |-> <<"l","a","s","t","e","s","t">>,     correct |-> <<"l","a","t","e","s","t">>],
    [typo |-> <<"u","b","u","n","u","t">>,         correct |-> <<"u","b","u","n","t","u">>],
    [typo |-> <<"n","g","n","i","x">>,             correct |-> <<"n","g","i","n","x">>],
    [typo |-> <<"p","o","s","t","g","r","e","s","s">>, correct |-> <<"p","o","s","t","g","r","e","s">>],
    [typo |-> <<"r","e","d","i","s","s">>,         correct |-> <<"r","e","d","i","s">> ] >>

\* re.search(r'Image:\s+(.+?)(?:\n|$)', pod_desc): the value of the first
\* "Image:" line of the description (a sequence of [label, value] lines)
ImageMatch(pod_desc) ==
    LET hits == {i \in 1..Len(pod_desc) : pod_desc[i].label = "Image"}
    IN  IF hits = {} THEN None
        ELSE Some(pod_desc[CHOOSE i \in hits : \A j \in hits : i <= j].value)

RECURSIVE FirstTypoFrom(_, _)
\* for typo, correct in IMAGE_TYPO_MAP.items(): the first entry whose typo
\* occurs in the lower-cased image, from entry k on
FirstTypoFrom(image, k) ==
    IF k > Len(IMAGE_TYPO_MAP) THEN None
    ELSE IF Contains(Lower(image), IMAGE_TYPO_MAP[k].typo)
         THEN Some([original |-> image,
                    corrected |-> Replace(Lower(image), IMAGE_TYPO_MAP[k].typo,
                                          IMAGE_TYPO_MAP[k].correct)])
         ELSE FirstTypoFrom(image, k + 1)

\* Planner._detect_image_typo
DetectImageTypo(ctx) ==
    LET m == ImageMatch(ctx.pod_description)
    IN  IF ~IsSome(m) THEN None ELSE FirstTypoFrom(Get(m), 1)

LOG_WORDS == {<<"ERROR">>, <<"WARNING">>, <<"INFO">>, <<"DEBUG">>}

\* the default value chosen for a variable name (its '_'-separated words)
EnvDefault(var_name) ==
    IF \E i \in 1..Len(var_name) : var_name[i] = "PASSWORD" THEN "password123"
    ELSE IF \E i \in 1..Len(var_name) : var_name[i] = "HOST" THEN "localhost"
    ELSE IF \E i \in 1..Len(var_name) : var_name[i] = "PORT" THEN "3306"
    ELSE "default"

\* Planner._detect_missing_env_vars: logs is a sequence of lines; a line
\* [name, empty] with empty = TRUE is one that ends "<NAME> is:" with nothing
\* after it, NAME in upper case.  The result is the dict as its set of items.
DetectMissingEnvVars(ctx) ==
    LET matches == {ctx.logs[i].name : i \in {j \in 1..Len(ctx.logs) : ctx.logs[j].empty}}
        env_vars == {<<n, EnvDefault(n)>> : n \in matches \ LOG_WORDS}
    IN  IF env_vars # {} THEN Some(env_vars) ELSE None

----------------------------------------------------------------------------
(* Memory *)

EmptyMemory == [attempts |-> <<>>, patterns |-> <<>>]

\* f"{status}_{reason}"
PatternKey(issue) == issue.status \o "_" \o issue.reason

\* memory.RemediationAttempt
MkAttempt(issue, action, details, success, reasoning) ==
    [issue |-> issue, action |-> action, action_details |-> details,
     success |-> success, reasoning |-> reasoning]

\* the entry _update_patterns files under a Pattern (lines 92-96)
ActionEntry(attempt) ==
    [action |-> attempt.action, details |-> attempt.action_details,
     reasoning |-> attempt.reasoning]

\* mutant of UpdatePatterns: an existing Pattern keeps its stored actions,
\* only its counters move
UpdatePatternsKeepFirst(patterns, attempt) ==
    LET key == PatternKey(attempt.issue)
    IN  IF key \in DOMAIN patterns
        THEN [patterns EXCEPT ![key].success_count = @ + 1, ![key].total_count = @ + 1]
        ELSE [k \in DOMAIN patterns \cup {key} |->
                IF k = key
                THEN [successful_actions |-> <<ActionEntry(attempt)>>,
                      success_count |-> 1, total_count |-> 1]
                ELSE patterns[k]]

\* mutant of UpdatePatterns: the table is rebuilt with the attempt's Pattern
\* alone
UpdatePatternsDropOthers(patterns, attempt) ==
    LET key == PatternKey(attempt.issue)
        old == IF key \in DOMAIN patterns THEN patterns[key]
               ELSE [successful_actions |-> <<>>, success_count |-> 0,
                     total_count |-> 0]
    IN  [k \in {key} |->
            [successful_actions |-> Append(old.successful_actions, ActionEntry(attempt)),
             success_count |-> old.success_count + 1,
             total_count |-> old.total_count + 1]]

\* mutant of UpdatePatterns: total_count is not incremented
UpdatePatternsSuccessOnly(patterns, attempt) ==
    LET key == PatternKey(attempt.issue)
        old == IF key \in DOMAIN patterns THEN patterns[key]
               ELSE [successful_actions |-> <<>>, success_count |-> 0,
                     total_count |-> 0]
    IN  [k \in DOMAIN patterns \cup {key} |->
            IF k = key
            THEN [successful_actions |-> Append(old.successful_actions, ActionEntry(attempt)),
                  success_count |-> old.success_count + 1,
                  total_count |-> old.total_count]
            ELSE patterns[k]]

\* mutant of UpdatePatterns: success_count is set to 1, not incremented
UpdatePatternsCountOnce(patterns, attempt) ==
    LET key == PatternKey(attempt.issue)
        old == IF key \in DOMAIN patterns THEN patterns[key]
               ELSE [successful_actions |-> <<>>, success_count |-> 0,
                     total_count |-> 0]
    IN  [k \in DOMAIN patterns \cup {key} |->
            IF k = key
            THEN [successful_actions |-> Append(old.successful_actions, ActionEntry(attempt)),
                  success_count |-> 1,
                  total_count |-> old.total_count + 1]
            ELSE patterns[k]]

\* Memory._update_patterns
UpdatePatterns(patterns, attempt) ==
    IF attempt.success
    THEN LET key == PatternKey(attempt.issue)
             old == IF key \in DOMAIN patterns THEN patterns[key]
                    ELSE [successful_actions |-> <<>>, success_count |-> 0,
                          total_count |-> 0]
             new == [successful_actions |->
                        Append(old.successful_actions,
                               [action |-> attempt.action,
                                details |-> attempt.action_details,
                                reasoning |-> attempt.reasoning]),
                     success_count |-> old.success_count + 1,
                     total_count |-> old.total_count + 1]
         IN  [k \in DOMAIN patterns \cup {key} |-> IF k = key THEN new ELSE patterns[k]]
    ELSE patterns

\* mutant of StoreAttempt: the Pattern is updated whatever the outcome
StoreAttemptAlwaysLearn(mem, attempt) ==
    [attempts |-> Append(mem.attempts, attempt),
     patterns |-> UpdatePatterns(mem.patterns, [attempt EXCEPT !.success = TRUE])]

\* mutant of StoreAttempt: the new record goes to the front of the log
StoreAttemptNewestFirst(mem, attempt) ==
    [attempts |-> <<attempt>> \o mem.attempts,
     patterns |-> IF attempt.success THEN UpdatePatterns(mem.patterns, attempt)
                  ELSE mem.patterns]

\* Memory.store_attempt, the in-memory part
StoreAttempt(mem, attempt) ==
    [attempts |-> Append(mem.attempts, attempt),
     patterns |-> IF attempt.success THEN UpdatePatterns(mem.patterns, attempt)
                  ELSE mem.patterns]

\* a JSON document, two levels deep: an object with its members, an array
\* with its items, or null
JsonObject(members) == [type |-> "object", members |-> members, items |-> <<>>]
JsonArray(items) == [type |-> "array", members |-> <<>>, items |-> items]
JsonNull == [type |-> "null", members |-> <<>>, items |-> <<>>]

\* the text of a file: one that json.load parses into doc, or one it rejects
FileJson(doc) == [parses |-> TRUE, doc |-> doc]
FileGarbage == [parses |-> FALSE, doc |-> JsonNull]

\* json.dump(self.memory, f): the dict becomes an object, the Attempt list
\* an array, the Pattern table an object keyed by signature
JsonDump(mem) ==
    JsonObject([k \in DOMAIN mem |->
                  IF k = "attempts" THEN JsonArray(mem[k]) ELSE JsonObject(mem[k])])

\* json.load, the value of a member: an array gives a list, an object a dict
JsonMemberValue(doc) == IF doc.type = "array" THEN doc.items ELSE doc.members

\* json.load(f): an object gives a dict of its members' values, anything
\* else a value without keys
JsonLoad(doc) ==
    IF doc.type = "object"
    THEN [k \in DOMAIN doc.members |-> JsonMemberValue(doc.members[k])]
    ELSE doc.items

\* mutant of SaveMemory: only the Attempt log is written
SaveMemoryAttemptsOnly(mem) ==
    Some(FileJson(JsonObject([attempts |-> JsonArray(mem.attempts)])))

\* Memory._save_memory: the file is rewritten with the whole state
SaveMemory(mem) == Some(FileJson(JsonDump(mem)))

\* Memory._load_memory: the empty state when the file is missing or json.load
\* rejects it (JSONDecodeError), whatever json.load returns otherwise
LoadMemory(f) ==
    IF ~IsSome(f) THEN EmptyMemory
    ELSE IF ~Get(f).parses THEN EmptyMemory
    ELSE JsonLoad(Get(f).doc)

\* self.memory["attempts"] / self.memory["patterns"] can be subscripted
HasAttempts(mem) == "attempts" \in DOMAIN mem
HasPatterns(mem) == "patterns" \in DOMAIN mem

\* mutant of RecallSimilar: the oldest successful action, not the most recent
RecallOldest(mem, issue) ==
    LET key == PatternKey(issue)
    IN  IF key \in DOMAIN mem.patterns /\ mem.patterns[key].success_count > 0
        THEN Some(Head(mem.patterns[key].successful_actions))
        ELSE None

\* Memory.recall_similar
RecallSimilar(mem, issue) ==
    LET key == PatternKey(issue)
    IN  IF key \in DOMAIN mem.patterns /\ mem.patterns[key].success_count > 0
        THEN Some(Last(mem.patterns[key].successful_actions))
        ELSE None

\* mutant of GetHistory: no filter on the pod name
GetHistoryAll(mem, pod_name) == mem.attempts

\* Memory.get_history
GetHistory(mem, pod_name) ==
    FilterSeq(mem.attempts,
              {mem.attempts[i] : i \in {j \in 1..Len(mem.attempts) :
                                          mem.attempts[j].issue.pod_name = pod_name}})

\* Memory.get_success_rate: success_count / total_count as <<numerator,
\* denominator>>, 0.0 as <<0, 1>>
GetSuccessRate(mem, pattern_key) ==
    IF pattern_key \in DOMAIN mem.patterns /\ mem.patterns[pattern_key].total_count > 0
    THEN <<mem.patterns[pattern_key].success_count, mem.patterns[pattern_key].total_count>>
    ELSE <<0, 1>>

\* Memory.get_statistics; success_rate as <<numerator, denominator>>
GetStatistics(mem) ==
    LET total_attempts == Len(mem.attempts)
        successful_attempts ==
            Cardinality({i \in 1..Len(mem.attempts) : mem.attempts[i].success})
    IN  [total_attempts |-> total_attempts,
         successful_attempts |-> successful_attempts,
         success_rate |-> IF total_attempts > 0
                          THEN <<successful_attempts, total_attempts>> ELSE <<0, 1>>,
         patterns_learned |-> Cardinality(DOMAIN mem.patterns)]

----------------------------------------------------------------------------
(* Planner tier 3: the reasoning-service reply and Planner._parse_plan *)

\* A reply text is a sequence of tokens: "prose" (text without brackets),
\* "lbracket" '[', "rbracket" ']', "comma" ',', "object" (a JSON object,
\* with the Step keys it has) and "string" (a JSON string literal).
Tok(kind) ==
    [kind |-> kind, action |-> None, details |-> None, reasoning |-> None,
     confidence |-> None]

ParseFail == [ok |-> FALSE, elems |-> <<>>, next |-> 0]

RECURSIVE ParseValue(_, _), ParseArray(_, _), ParseElems(_, _)
\* json: one value starting at token i; a nested array is the non-object
\* value Tok("array")
ParseValue(toks, i) ==
    IF i > Len(toks) THEN ParseFail
    ELSE IF toks[i].kind \in {"object", "string"}
         THEN [ok |-> TRUE, elems |-> <<toks[i]>>, next |-> i + 1]
    ELSE IF toks[i].kind = "lbracket"
         THEN LET a == ParseArray(toks, i)
              IN  IF a.ok THEN [ok |-> TRUE, elems |-> <<Tok("array")>>, next |-> a.next]
                  ELSE ParseFail
    ELSE ParseFail

\* json: an array whose '[' is token i; elems are its values, in order
ParseArray(toks, i) ==
    IF i + 1 > Len(toks) THEN ParseFail
    ELSE IF toks[i + 1].kind = "rbracket"
         THEN [ok |-> TRUE, elems |-> <<>>, next |-> i + 2]
    ELSE ParseElems(toks, i + 1)

\* json: value (',' value)* ']' starting at token i
ParseElems(toks, i) ==
    LET v == ParseValue(toks, i)
    IN  IF ~v.ok \/ v.next > Len(toks) THEN ParseFail
        ELSE IF toks[v.next].kind = "rbracket"
             THEN [ok |-> TRUE, elems |-> v.elems, next |-> v.next + 1]
        ELSE IF toks[v.next].kind = "comma"
             THEN LET r == ParseElems(toks, v.next + 1)
                  IN  IF r.ok THEN [ok |-> TRUE, elems |-> v.elems \o r.elems,
                                    next |-> r.next]
                      ELSE ParseFail
        ELSE ParseFail

\* re.search(r'\[.*\]', plan_text, re.DOTALL): greedy, from the first '[' to
\* the last ']' after it
JsonMatch(plan_text) ==
    LET lefts == {i \in 1..Len(plan_text) : plan_text[i].kind = "lbracket"}
        rights == {i \in 1..Len(plan_text) : plan_text[i].kind = "rbracket"}
        first == CHOOSE i \in lefts : \A j \in lefts : i <= j
        last == CHOOSE i \in rights : \A j \in rights : j <= i
    IN  IF lefts # {} /\ rights # {} /\ first < last
        THEN Some(SubSeq(plan_text, first, last))
        ELSE None

\* json.loads of a text that starts with '[': the list, or JSONDecodeError
JsonLoads(span) ==
    LET a == ParseArray(span, 1)
    IN  IF a.ok /\ a.next = Len(span) + 1 THEN Some(a.elems) ELSE None

\* mutant of HasValidAction: the filter only asks for an "action" key
HasValidActionAnyKind(step) == IsSome(step.action)

\* step.get("action") in valid_actions, for a dict step
HasValidAction(step) == IsSome(step.action) /\ Get(step.action) \in VALID_ACTIONS

\* the safe-default Step of _parse_plan and of create_plan's except branch
FallbackStep(issue, reasoning) ==
    MkStep(Some("restart_pod"),
           Some([NoDetails EXCEPT !.pod_name = Some(issue.pod_name),
                                  !.namespace = Some(issue.namespace)]),
           Some(reasoning), Some("low"))

\* the Steps of a parsed list that pass the filter of _parse_plan
ValidatedPlan(elems) ==
    FilterSeq(elems, {elems[i] : i \in {j \in 1..Len(elems) : HasValidAction(elems[j])}})

\* mutant of ParsePlan: the "if validated_plan" test is missing, so an empty
\* validated list is returned as the Plan
ParsePlanNoEmptyCheck(plan_text, issue) ==
    LET m == JsonMatch(plan_text)
        loaded == IF IsSome(m) THEN JsonLoads(Get(m)) ELSE None
    IN  IF ~IsSome(loaded)
        THEN [raised |-> FALSE, how |-> "fallback",
              plan |-> <<FallbackStep(issue, "Could not parse AI plan, using fallback")>>]
        ELSE IF \E i \in 1..Len(Get(loaded)) : Get(loaded)[i].kind # "object"
             THEN [raised |-> TRUE, how |-> "raised", plan |-> <<>>]
             ELSE [raised |-> FALSE, how |-> "validated",
                   plan |-> ValidatedPlan(Get(loaded))]

\* Planner._parse_plan: [raised, plan, how]; raised when step.get is called
\* on an entry that is not a dict (AttributeError, not caught here)
ParsePlan(plan_text, issue) ==
    LET m == JsonMatch(plan_text)
        loaded == IF IsSome(m) THEN JsonLoads(Get(m)) ELSE None
        fallback == [raised |-> FALSE, how |-> "fallback",
                     plan |-> <<FallbackStep(issue, "Could not parse AI plan, using fallback")>>]
    IN  IF ~IsSome(loaded) THEN fallback
        ELSE LET elems == Get(loaded)
             IN  IF \E i \in 1..Len(elems) : elems[i].kind # "object"
                 THEN [raised |-> TRUE, how |-> "raised", plan |-> <<>>]
                 ELSE IF ValidatedPlan(elems) # <<>>
                      THEN [raised |-> FALSE, how |-> "validated",
                            plan |-> ValidatedPlan(elems)]
                      ELSE fallback

----------------------------------------------------------------------------
(* Planner.create_plan *)

\* reasoning-service outcomes: the call raises (error, timeout), the reply
\* has no content (None), or the reply is a text.  A text is kept with how
\* it was written (shape, entries); the Planner reads the text only.
LlmRaise == [kind |-> "raise", shape |-> "none", entries |-> <<>>, text |-> <<>>]
LlmNull == [kind |-> "null", shape |-> "none", entries |-> <<>>, text |-> <<>>]
LlmText(shape, entries, text) ==
    [kind |-> "text", shape |-> shape, entries |-> entries, text |-> text]
\* planInfo.llm when the service was not called
LlmNotCalled == [kind |-> "notcalled", shape |-> "none", entries |-> <<>>, text |-> <<>>]

\* tier 1, lines 36-51
ImageTypoPlan(issue, ctx) ==
    LET typo_fix == DetectImageTypo(ctx)
    IN  IF issue.reason \in {"ImagePullBackOff", "ErrImagePull"} /\ IsSome(typo_fix)
        THEN <<MkStep(Some("fix_image_name"),
                      Some([NoDetails EXCEPT
                              !.deployment_name = Some(DeploymentOf(issue.pod_name)),
                              !.new_image = Some(Get(typo_fix).corrected)]),
                      Some("Detected typo in image name"), Some("high"))>>
        ELSE <<>>

\* tier 1, lines 53-68
MissingEnvPlan(issue, ctx) ==
    LET missing_env == DetectMissingEnvVars(ctx)
    IN  IF issue.reason = "CrashLoopBackOff" /\ IsSome(missing_env)
        THEN <<MkStep(Some("update_env"),
                      Some([NoDetails EXCEPT
                              !.deployment_name = Some(DeploymentOf(issue.pod_name)),
                              !.env_vars = Some(Get(missing_env))]),
                      Some("Pod logs indicate missing environment variables"),
                      Some("high"))>>
        ELSE <<>>

\* mutant of MemoryPlan: the recalled Step is reused without the
\* valid_actions test
MemoryPlanUnchecked(mem, issue) ==
    LET similar_solution == RecallSimilar(mem, issue)
    IN  IF IsSome(similar_solution)
        THEN <<MkStep(Some(Get(similar_solution).action),
                      Some(Get(similar_solution).details),
                      Some("Using learned solution: " \o Get(similar_solution).action),
                      Some("high"))>>
        ELSE <<>>

\* mutant of MemoryPlan: the memory is never used
MemoryPlanNone(mem, issue) == <<>>

\* tier 2, lines 70-83
MemoryPlan(mem, issue) ==
    LET similar_solution == RecallSimilar(mem, issue)
    IN  IF IsSome(similar_solution) /\ Get(similar_solution).action \in VALID_ACTIONS
        THEN <<MkStep(Some(Get(similar_solution).action),
                      Some(Get(similar_solution).details),
                      Some("Using learned solution: " \o Get(similar_solution).action),
                      Some("high"))>>
        ELSE <<>>

\* mutant of LlmPlan: the except clause catches the service's errors only,
\* so an error raised inside _parse_plan leaves create_plan
LlmPlanNarrowExcept(issue, llm) ==
    LET parsed == ParsePlan(llm.text, issue)
    IN  IF llm.kind # "text"
        THEN [tier |-> "fallback_error", raised |-> FALSE,
              plan |-> <<FallbackStep(issue, "Fallback action due to planning error")>>]
        ELSE IF parsed.raised
        THEN [tier |-> "fallback_error", raised |-> TRUE, plan |-> <<>>]
        ELSE [tier |-> IF parsed.how = "validated" THEN "llm" ELSE "fallback_parse",
              raised |-> FALSE, plan |-> parsed.plan]

\* tiers 3 and 4, lines 85-112
LlmPlan(issue, llm) ==
    LET parsed == ParsePlan(llm.text, issue)
        \* except Exception: every error of the call and of _parse_plan lands here
        error == [tier |-> "fallback_error", raised |-> FALSE,
                  plan |-> <<FallbackStep(issue, "Fallback action due to planning error")>>]
    IN  IF llm.kind # "text" THEN error
        ELSE IF parsed.raised THEN error
        ELSE [tier |-> IF parsed.how = "validated" THEN "llm" ELSE "fallback_parse",
              raised |-> FALSE, plan |-> parsed.plan]

\* mutant of CreatePlan: the memory is asked before the heuristic detectors
CreatePlanMemoryFirst(issue, ctx, mem, llm) ==
    IF MemoryPlan(mem, issue) # <<>>
    THEN [plan |-> MemoryPlan(mem, issue), tier |-> "memory",
          raised |-> FALSE, recalled |-> TRUE, llm |-> LlmNotCalled]
    ELSE IF ImageTypoPlan(issue, ctx) # <<>>
    THEN [plan |-> ImageTypoPlan(issue, ctx), tier |-> "heuristic_image",
          raised |-> FALSE, recalled |-> TRUE, llm |-> LlmNotCalled]
    ELSE IF MissingEnvPlan(issue, ctx) # <<>>
    THEN [plan |-> MissingEnvPlan(issue, ctx), tier |-> "heuristic_env",
          raised |-> FALSE, recalled |-> TRUE, llm |-> LlmNotCalled]
    ELSE [plan |-> LlmPlan(issue, llm).plan, tier |-> LlmPlan(issue, llm).tier,
          raised |-> LlmPlan(issue, llm).raised, recalled |-> TRUE, llm |-> llm]

\* Planner.create_plan: the Plan (raised: an exception left create_plan
\* instead), the tier that produced it, whether Memory.recall_similar was
\* called, and the reasoning-service outcome when the service was called
CreatePlan(issue, ctx, mem, llm) ==
    IF ImageTypoPlan(issue, ctx) # <<>>
    THEN [plan |-> ImageTypoPlan(issue, ctx), tier |-> "heuristic_image",
          raised |-> FALSE, recalled |-> FALSE, llm |-> LlmNotCalled]
    ELSE IF MissingEnvPlan(issue, ctx) # <<>>
    THEN [plan |-> MissingEnvPlan(issue, ctx), tier |-> "heuristic_env",
          raised |-> FALSE, recalled |-> FALSE, llm |-> LlmNotCalled]
    ELSE IF MemoryPlan(mem, issue) # <<>>
    THEN [plan |-> MemoryPlan(mem, issue), tier |-> "memory",
          raised |-> FALSE, recalled |-> TRUE, llm |-> LlmNotCalled]
    ELSE [plan |-> LlmPlan(issue, llm).plan, tier |-> LlmPlan(issue, llm).tier,
          raised |-> LlmPlan(issue, llm).raised, recalled |-> TRUE, llm |-> llm]

\* whether create_plan gets as far as calling the reasoning service
NeedsLlm(issue, ctx, mem) ==
    /\ ImageTypoPlan(issue, ctx) = <<>>
    /\ MissingEnvPlan(issue, ctx) = <<>>
    /\ MemoryPlan(mem, issue) = <<>>

----------------------------------------------------------------------------
(* Inputs: issues, diagnostic contexts, attempts and reasoning-service replies *)

Issues ==
    {MkIssue(PodWeb, "Waiting", "ImagePullBackOff", "Back-off pulling image"),
     MkIssue(PodWeb, "Waiting", "CrashLoopBackOff", "back-off restarting"),
     MkIssue(PodDb, "Waiting", "ErrImagePull", ""),
     MkIssue(PodDb, "Terminated", "OOMKilled", "Exit code: 137. ")}

\* kubectl describe output, as its lines
DescTypo ==
    <<[label |-> "Name", value |-> <<"w","e","b">>],
      [label |-> "Image", value |-> <<"N","g","n","i","x",":","1",".","2">>]>>
DescClean ==
    <<[label |-> "Name", value |-> <<"w","e","b">>],
      [label |-> "Image", value |-> <<"n","g","i","n","x",":","1",".","2">>]>>
\* "Error describing pod: ..." (get_pod_description's except branch)
DescError == <<[label |-> "Error describing pod", value |-> <<"e">>]>>

\* kubectl logs output, as its lines
LogsClean == <<[name |-> <<"listening">>, empty |-> FALSE]>>
LogsMissingEnv ==
    <<[name |-> <<"DB", "HOST">>, empty |-> TRUE],
      [name |-> <<"DB", "PASSWORD">>, empty |-> TRUE],
      [name |-> <<"DB", "PORT">>, empty |-> FALSE]>>
LogsLogWord == <<[name |-> <<"ERROR">>, empty |-> TRUE]>>

\* AgenticMonitor.gather_context (events only reach the prompt)
Contexts ==
    {[pod_description |-> d, logs |-> l] :
        d \in {DescTypo, DescClean}, l \in {LogsClean, LogsMissingEnv}}
    \cup {[pod_description |-> DescError, logs |-> LogsLogWord],
          \* a misspelt repository with a tag in upper case
          [pod_description |->
              <<[label |-> "Name", value |-> <<"w","e","b">>],
                [label |-> "Image", value |-> <<"n","g","n","i","x",":","R","1">>]>>,
           logs |-> LogsClean]}

DetailsRestart(issue) ==
    [NoDetails EXCEPT !.pod_name = Some(issue.pod_name),
                      !.namespace = Some(issue.namespace)]
DetailsMemory == [NoDetails EXCEPT !.new_limit = Some("512Mi")]

\* Attempts that a caller of store_attempt records; "scale_deployment" stands
\* for an action kind of another version of the enumeration
StoredAttempts ==
    LET crash == MkIssue(PodWeb, "Waiting", "CrashLoopBackOff", "back-off restarting")
        pull == MkIssue(PodDb, "Waiting", "ErrImagePull", "")
    IN  {MkAttempt(crash, "restart_pod", DetailsRestart(crash), TRUE, "restart"),
         MkAttempt(crash, "increase_memory", DetailsMemory, TRUE, "oom"),
         MkAttempt(crash, "scale_deployment", NoDetails, TRUE, "scale"),
         MkAttempt(pull, "restart_pod", DetailsRestart(pull), FALSE, "restart")}

\* JSON objects of a reply
ObjMemory ==
    MkStep(Some("increase_memory"), Some(DetailsMemory), Some("raise limit"), Some("high"))
\* a valid action kind and nothing else: {"action": "restart_pod"}
ObjBare == MkStep(Some("restart_pod"), None, None, None)
ObjBogus == MkStep(Some("bogus"), Some(NoDetails), Some("made up"), Some("high"))

ReplyEntries == {ObjMemory, ObjBare, ObjBogus, Tok("string")}

RECURSIVE JoinComma(_)
\* e1 , e2 , ... , en
JoinComma(entries) ==
    IF Len(entries) <= 1 THEN entries
    ELSE <<Head(entries), Tok("comma")>> \o JoinComma(Tail(entries))

\* [ e1 , ... , en ]
ArrayText(entries) == <<Tok("lbracket")>> \o JoinComma(entries) \o <<Tok("rbracket")>>

EntrySeqs == UNION {[1..n -> ReplyEntries] : n \in 0..MaxEntries}

\* "Here is the plan: [ ... ] Good luck."
InProse(es) == <<Tok("prose")>> \o ArrayText(es) \o <<Tok("prose")>>

\* "Plan [draft] follows: [ ... ]": the prose holds a bracketed remark
AfterBracketedProse(es) ==
    <<Tok("prose"), Tok("lbracket"), Tok("prose"), Tok("rbracket"), Tok("prose")>>
        \o ArrayText(es)

\* "[ e1, e2": the reply is cut off before the array is closed
Truncated(es) == <<Tok("lbracket")>> \o JoinComma(es)

\* the replies: a bare array, an array inside prose, an array after prose
\* with a bracketed remark, a truncated array, and texts with no array
LlmReplies ==
    {LlmText("array", es, ArrayText(es)) : es \in EntrySeqs}
    \cup {LlmText("in_prose", es, InProse(es)) : es \in EntrySeqs}
    \cup {LlmText("after_bracketed_prose", es, AfterBracketedProse(es)) : es \in EntrySeqs}
    \cup {LlmText("truncated", es, Truncated(es)) : es \in EntrySeqs}
    \cup {LlmText("no_array", <<>>, <<>>), LlmText("no_array", <<>>, <<Tok("prose")>>)}

LlmOutcomes == {LlmRaise, LlmNull} \cup LlmReplies

----------------------------------------------------------------------------
(* Planner harness: any sequence of store_attempt calls, then create_plan *)

NoPlanInfo ==
    [plan |-> <<>>, tier |-> "none", raised |-> FALSE, recalled |-> FALSE,
     llm |-> LlmNotCalled]

NoContext == [pod_description |-> <<>>, logs |-> <<>>]

NoRet == [op |-> "none", arg |-> <<>>, value |-> <<>>, raised |-> FALSE]

InitCommon ==
    /\ memory = EmptyMemory
    /\ file = None
    /\ ret = NoRet
    /\ env = [key |-> TRUE, fresh |-> FALSE]
    /\ iteration = 0
    /\ issues = <<>>
    /\ idx = 0
    /\ context = NoContext
    /\ plan = <<>>
    /\ planInfo = NoPlanInfo
    /\ stepIdx = 0
    /\ calls = <<>>
    /\ applied = <<>>
    /\ execResult = "none"
    /\ summaries = 0

PlannerInit == InitCommon /\ pc = "building" /\ auto_remediate = TRUE

\* Memory.store_attempt(attempt)
PStoreAttempt ==
    /\ pc = "building"
    /\ Len(memory.attempts) < MaxAttempts
    /\ \E attempt \in StoredAttempts :
         /\ memory' = StoreAttempt(memory, attempt)
         /\ file' = SaveMemory(memory')
    /\ UNCHANGED <<pc, iteration, issues, idx, context, plan, planInfo, stepIdx,
                   calls, applied, execResult, summaries, auto_remediate, ret, env>>

\* Planner.create_plan(issue, context)
PCreatePlan ==
    /\ pc = "building"
    /\ \E issue \in Issues, ctx \in Contexts :
         \E llm \in IF NeedsLlm(issue, ctx, memory) THEN LlmOutcomes ELSE {LlmNotCalled} :
            /\ issues' = <<issue>>
            /\ idx' = 1
            /\ context' = ctx
            /\ planInfo' = CreatePlan(issue, ctx, memory, llm)
            /\ plan' = planInfo'.plan
    /\ pc' = "planned"
    /\ UNCHANGED <<memory, file, iteration, stepIdx, calls, applied, execResult,
                   summaries, auto_remediate, ret, env>>

\* the caller drops the Plan; more attempts and plans may follow
PDiscard ==
    /\ pc = "planned"
    /\ pc' = "building"
    /\ issues' = <<>>
    /\ idx' = 0
    /\ context' = NoContext
    /\ plan' = <<>>
    /\ planInfo' = NoPlanInfo
    /\ UNCHANGED <<memory, file, iteration, stepIdx, calls, applied, execResult,
                   summaries, auto_remediate, ret, env>>

PlannerNext == PStoreAttempt \/ PCreatePlan \/ PDiscard

SpecPlanner == PlannerInit /\ [][PlannerNext]_vars

----------------------------------------------------------------------------
(* Memory harness: a Memory object is constructed on the file, any sequence *)
(* of its operations is called, and a fresh object may be constructed on    *)
(* the file the previous one left                                           *)

\* agentic_memory.json before the first construction: missing, not JSON,
\* "{}", "{"attempts": []}" or "[]"
InitialFiles ==
    {None,
     Some(FileGarbage),
     Some(FileJson(JsonObject(<<>>))),
     Some(FileJson(JsonObject([attempts |-> JsonArray(<<>>)]))),
     Some(FileJson(JsonArray(<<>>)))}

\* the Attempts the harness stores: two workloads, two signatures, successes
\* and failures
MemoryAttempts ==
    LET crashWeb == MkIssue(PodWeb, "Waiting", "CrashLoopBackOff", "back-off restarting")
        crashDb == MkIssue(PodDb, "Waiting", "CrashLoopBackOff", "back-off restarting")
        pullDb == MkIssue(PodDb, "Waiting", "ErrImagePull", "")
    IN  {MkAttempt(crashWeb, "restart_pod", DetailsRestart(crashWeb), TRUE, "restart"),
         MkAttempt(crashWeb, "increase_memory", DetailsMemory, TRUE, "oom"),
         MkAttempt(crashDb, "restart_pod", DetailsRestart(crashDb), FALSE, "restart"),
         MkAttempt(pullDb, "restart_pod", DetailsRestart(pullDb), TRUE, "restart"),
         MkAttempt(pullDb, "increase_memory", DetailsMemory, FALSE, "oom")}

MemoryInit ==
    /\ memory = EmptyMemory
    /\ file \in InitialFiles
    /\ ret = NoRet
    /\ env = [key |-> TRUE, fresh |-> FALSE]
    /\ iteration = 0
    /\ issues = <<>>
    /\ idx = 0
    /\ context = NoContext
    /\ plan = <<>>
    /\ planInfo = NoPlanInfo
    /\ stepIdx = 0
    /\ calls = <<>>
    /\ applied = <<>>
    /\ execResult = "none"
    /\ summaries = 0
    /\ pc = "m_new"
    /\ auto_remediate = TRUE

\* Memory.__init__: self.memory = self._load_memory()
MLoad ==
    /\ pc = "m_new"
    /\ memory' = LoadMemory(file)
    /\ ret' = [op |-> "load", arg |-> <<>>, value |-> <<>>, raised |-> FALSE]
    /\ pc' = "m_ready"
    /\ UNCHANGED <<file, iteration, issues, idx, context, plan, planInfo, stepIdx,
                   calls, applied, execResult, summaries, auto_remediate, env>>

\* Memory.store_attempt: line 69 raises without the "attempts" key; with it
\* the record is appended, and for a success without the "patterns" key
\* line 81 raises before _save_memory is reached
MStoreAttempt ==
    /\ pc = "m_ready"
    /\ HasAttempts(memory) => Len(memory.attempts) < MaxAttempts
    /\ \E attempt \in MemoryAttempts :
         IF ~HasAttempts(memory)
         THEN /\ ret' = [op |-> "store", arg |-> attempt, value |-> <<>>, raised |-> TRUE]
              /\ UNCHANGED <<memory, file>>
         ELSE IF attempt.success /\ ~HasPatterns(memory)
         THEN /\ memory' = [memory EXCEPT !.attempts = Append(@, attempt)]
              /\ ret' = [op |-> "store", arg |-> attempt, value |-> <<>>, raised |-> TRUE]
              /\ UNCHANGED file
         ELSE IF ~HasPatterns(memory)
         THEN /\ memory' = [memory EXCEPT !.attempts = Append(@, attempt)]
              /\ file' = SaveMemory(memory')
              /\ ret' = [op |-> "store", arg |-> attempt, value |-> <<>>, raised |-> FALSE]
         ELSE /\ memory' = StoreAttempt(memory, attempt)
              /\ file' = SaveMemory(memory')
              /\ ret' = [op |-> "store", arg |-> attempt, value |-> <<>>, raised |-> FALSE]
    /\ UNCHANGED <<pc, iteration, issues, idx, context, plan, planInfo, stepIdx,
                   calls, applied, execResult, summaries, auto_remediate, env>>

\* Memory.recall_similar(issue)
MRecall ==
    /\ pc = "m_ready"
    /\ \E issue \in Issues :
         ret' = IF HasPatterns(memory)
                THEN [op |-> "recall", arg |-> issue,
                      value |-> RecallSimilar(memory, issue), raised |-> FALSE]
                ELSE [op |-> "recall", arg |-> issue, value |-> <<>>, raised |-> TRUE]
    /\ UNCHANGED <<memory, file, pc, iteration, issues, idx, context, plan, planInfo,
                   stepIdx, calls, applied, execResult, summaries, auto_remediate, env>>

\* Memory.get_history(pod_name)
MGetHistory ==
    /\ pc = "m_ready"
    /\ \E pod_name \in {PodWeb, PodDb} :
         ret' = IF HasAttempts(memory)
                THEN [op |-> "history", arg |-> pod_name,
                      value |-> GetHistory(memory, pod_name), raised |-> FALSE]
                ELSE [op |-> "history", arg |-> pod_name, value |-> <<>>, raised |-> TRUE]
    /\ UNCHANGED <<memory, file, pc, iteration, issues, idx, context, plan, planInfo,
                   stepIdx, calls, applied, execResult, summaries, auto_remediate, env>>

\* Memory.get_statistics()
MGetStatistics ==
    /\ pc = "m_ready"
    /\ ret' = IF HasAttempts(memory) /\ HasPatterns(memory)
              THEN [op |-> "statistics", arg |-> <<>>,
                    value |-> GetStatistics(memory), raised |-> FALSE]
              ELSE [op |-> "statistics", arg |-> <<>>, value |-> <<>>, raised |-> TRUE]
    /\ UNCHANGED <<memory, file, pc, iteration, issues, idx, context, plan, planInfo,
                   stepIdx, calls, applied, execResult, summaries, auto_remediate, env>>

\* Memory.get_success_rate(pattern_key)
MGetSuccessRate ==
    /\ pc = "m_ready"
    /\ \E issue \in Issues :
         ret' = IF HasPatterns(memory)
                THEN [op |-> "success_rate", arg |-> PatternKey(issue),
                      value |-> GetSuccessRate(memory, PatternKey(issue)),
                      raised |-> FALSE]
                ELSE [op |-> "success_rate", arg |-> PatternKey(issue), value |-> <<>>,
                      raised |-> TRUE]
    /\ UNCHANGED <<memory, file, pc, iteration, issues, idx, context, plan, planInfo,
                   stepIdx, calls, applied, execResult, summaries, auto_remediate, env>>

\* the process ends; the next one constructs a fresh Memory on the file
MReopen ==
    /\ pc = "m_ready"
    /\ pc' = "m_new"
    /\ memory' = EmptyMemory
    /\ ret' = NoRet
    /\ UNCHANGED <<file, iteration, issues, idx, context, plan, planInfo, stepIdx,
                   calls, applied, execResult, summaries, auto_remediate, env>>

MemoryNext ==
    \/ MLoad
    \/ MStoreAttempt
    \/ MRecall
    \/ MGetHistory
    \/ MGetStatistics
    \/ MGetSuccessRate
    \/ MReopen

SpecMemory == MemoryInit /\ [][MemoryNext]_vars

----------------------------------------------------------------------------
(* AgenticMonitor.execute_plan *)

\* mutant of Command: a Step of an unknown kind restarts the pod
CommandUnknownRestarts(issue, action, details) ==
    LET deployment_name == GetOr(details.deployment_name, DeploymentOf(issue.pod_name))
        base == [op |-> "none", target |-> <<>>, namespace |-> Namespace,
                 env_vars |-> None, new_limit |-> None, new_image |-> None]
    IN  CASE action = "update_env" ->
               Some([base EXCEPT !.op = "patch_env", !.target = deployment_name,
                                 !.env_vars = Some(GetOr(details.env_vars, {}))])
          [] action = "increase_memory" ->
               Some([base EXCEPT !.op = "patch_memory", !.target = deployment_name,
                                 !.new_limit = Some(GetOr(details.new_limit, "512Mi"))])
          [] action = "fix_image_name" ->
               IF IsSome(details.new_image) /\ Get(details.new_image) # <<>>
               THEN Some([base EXCEPT !.op = "set_image", !.target = deployment_name,
                                      !.new_image = details.new_image])
               ELSE None
          [] OTHER -> Some([base EXCEPT !.op = "delete_pod", !.target = issue.pod_name])

\* mutant of Command: details["deployment_name"] is ignored, the target is
\* always derived from the pod name
CommandDerivedOnly(issue, action, details) ==
    LET deployment_name == DeploymentOf(issue.pod_name)
        base == [op |-> "none", target |-> <<>>, namespace |-> Namespace,
                 env_vars |-> None, new_limit |-> None, new_image |-> None]
    IN  CASE action = "restart_pod" ->
               Some([base EXCEPT !.op = "delete_pod", !.target = issue.pod_name])
          [] action = "update_env" ->
               Some([base EXCEPT !.op = "patch_env", !.target = deployment_name,
                                 !.env_vars = Some(GetOr(details.env_vars, {}))])
          [] action = "increase_memory" ->
               Some([base EXCEPT !.op = "patch_memory", !.target = deployment_name,
                                 !.new_limit = Some(GetOr(details.new_limit, "512Mi"))])
          [] action = "fix_image_name" ->
               IF IsSome(details.new_image) /\ Get(details.new_image) # <<>>
               THEN Some([base EXCEPT !.op = "set_image", !.target = deployment_name,
                                      !.new_image = details.new_image])
               ELSE None
          [] OTHER -> None

\* the mutating control-plane command a Step stands for, or None when
\* execute_plan calls nothing for it (lines 404-424): restart_pod deletes
\* the Issue's pod, the others act on details["deployment_name"] or, without
\* it, on the deployment derived from the pod name
Command(issue, action, details) ==
    LET deployment_name == GetOr(details.deployment_name, DeploymentOf(issue.pod_name))
        base == [op |-> "none", target |-> <<>>, namespace |-> Namespace,
                 env_vars |-> None, new_limit |-> None, new_image |-> None]
    IN  CASE action = "restart_pod" ->
               Some([base EXCEPT !.op = "delete_pod", !.target = issue.pod_name])
          [] action = "update_env" ->
               Some([base EXCEPT !.op = "patch_env", !.target = deployment_name,
                                 !.env_vars = Some(GetOr(details.env_vars, {}))])
          [] action = "increase_memory" ->
               Some([base EXCEPT !.op = "patch_memory", !.target = deployment_name,
                                 !.new_limit = Some(GetOr(details.new_limit, "512Mi"))])
          [] action = "fix_image_name" ->
               IF IsSome(details.new_image) /\ Get(details.new_image) # <<>>
               THEN Some([base EXCEPT !.op = "set_image", !.target = deployment_name,
                                      !.new_image = details.new_image])
               ELSE None
          [] OTHER -> None

\* how a kubectl subprocess of a tool ends: exit status 0; a non-zero exit
\* status (check=True raises CalledProcessError); the program cannot be
\* started (OSError)
KubectlOutcomes == {"exit0", "nonzero", "oserror"}

\* mutant of ToolReturns: only CalledProcessError is caught, any other
\* exception leaves the tool
ToolReturnsCalledProcessErrorOnly(outcome) ==
    IF outcome = "exit0" THEN "true"
    ELSE IF outcome = "nonzero" THEN "false" ELSE "raised"

\* KubernetesTools.restart_pod, update_deployment_env, increase_memory and
\* fix_image_name: True when the subprocess succeeds, False from the
\* "except Exception" branch otherwise
ToolReturns(outcome) == IF outcome = "exit0" THEN "true" ELSE "false"

\* step["action"] / step["details"] on a Step without the key: KeyError
StepLookupRaises(step) == ~IsSome(step.action) \/ ~IsSome(step.details)

\* mutant of AfterStep: the "return True" on success is missing, the loop
\* goes on to the next Step
AfterStepNoEarlyReturn(success, i, n) ==
    IF i < n THEN "running" ELSE IF success THEN "true" ELSE "false"

\* lines 426-432: after Step i of n, return True on success, go on to the
\* next Step otherwise, return False after the last one
AfterStep(success, i, n) ==
    IF success THEN "true" ELSE IF i < n THEN "running" ELSE "false"

----------------------------------------------------------------------------
(* AgenticMonitor.observe *)

\* kubectl get pods -o json: the pods the model's cluster can report
ContainerWaiting(reason) ==
    [name |-> "app", ready |-> FALSE, state |-> "waiting", reason |-> Some(reason),
     message |-> Some("back-off"), exitCode |-> None]
ContainerTerminated(reason, code) ==
    [name |-> "app", ready |-> FALSE, state |-> "terminated", reason |-> Some(reason),
     message |-> None, exitCode |-> Some(code)]
ContainerReady ==
    [name |-> "app", ready |-> TRUE, state |-> "running", reason |-> None,
     message |-> None, exitCode |-> None]

WebCrash == [name |-> PodWeb, containerStatuses |-> <<ContainerWaiting("CrashLoopBackOff")>>]
DbPull == [name |-> PodDb, containerStatuses |-> <<ContainerWaiting("ErrImagePull")>>]
DbHealthy == [name |-> PodDb, containerStatuses |-> <<ContainerReady>>]

\* mutant of ContainerIssue: a terminated container is not reported
ContainerIssueWaitingOnly(pod_name, cs) ==
    IF ~cs.ready /\ cs.state = "waiting"
    THEN <<MkIssue(pod_name, "Waiting", GetOr(cs.reason, "Unknown"),
                   GetOr(cs.message, ""))>>
    ELSE <<>>

\* the Issue of one container status, if it yields one (lines 350-382)
ContainerIssue(pod_name, cs) ==
    IF cs.ready THEN <<>>
    ELSE IF cs.state = "waiting"
         THEN <<MkIssue(pod_name, "Waiting", GetOr(cs.reason, "Unknown"),
                        GetOr(cs.message, ""))>>
    ELSE IF cs.state = "terminated"
         THEN <<MkIssue(pod_name, "Terminated", GetOr(cs.reason, "Unknown"),
                        "Exit code: " \o ToString(GetOr(cs.exitCode, 0)) \o ". "
                            \o GetOr(cs.message, ""))>>
    ELSE <<>>

RECURSIVE ContainerIssues(_, _)
ContainerIssues(pod_name, statuses) ==
    IF statuses = <<>> THEN <<>>
    ELSE ContainerIssue(pod_name, Head(statuses))
            \o ContainerIssues(pod_name, Tail(statuses))

RECURSIVE Observe(_)
\* AgenticMonitor.observe over the pods get_pods returned
Observe(pods) ==
    IF pods = <<>> THEN <<>>
    ELSE ContainerIssues(Head(pods).name, Head(pods).containerStatuses)
            \o Observe(Tail(pods))

\* what get_pods returns: the items of the cluster's answer, or [] when
\* kubectl fails
Snapshots ==
    {<<>>, <<DbHealthy>>, <<WebCrash>>, <<DbPull>>, <<WebCrash, DbPull>>,
     <<[name |-> PodDb, containerStatuses |-> <<ContainerWaiting("CrashLoopBackOff")>>]>>}

----------------------------------------------------------------------------
(* AgenticMonitor.run: the Observe - Plan - Act - Learn loop *)

ObjRestart ==
    MkStep(Some("restart_pod"), Some(NoDetails), Some("restart it"), Some("medium"))

\* what gather_context and the reasoning service give the loop
LoopContexts ==
    {[pod_description |-> DescClean, logs |-> LogsClean],
     [pod_description |-> DescTypo, logs |-> LogsMissingEnv]}

LoopLlmOutcomes ==
    {LlmRaise,
     LlmText("array", <<ObjMemory, ObjRestart>>, ArrayText(<<ObjMemory, ObjRestart>>)),
     LlmText("array", <<ObjBare>>, ArrayText(<<ObjBare>>))}

Init == InitCommon /\ pc = "idle" /\ auto_remediate \in BOOLEAN

\* asyncio.run(monitor.run())
Run ==
    /\ pc = "idle"
    /\ pc' = "top"
    /\ UNCHANGED <<memory, file, iteration, issues, idx, context, plan, planInfo,
                   stepIdx, calls, applied, execResult, summaries, auto_remediate, ret, env>>

\* lines 268-283: a cycle starts and observes
ObserveCycle ==
    /\ pc = "top"
    /\ iteration < MaxCycles
    /\ iteration' = iteration + 1
    /\ \E pods \in Snapshots :
         /\ issues' = Observe(pods)
         /\ idx' = IF issues' = <<>> THEN 0 ELSE 1
         /\ pc' = IF issues' = <<>> THEN "sleep" ELSE "plan"
    /\ UNCHANGED <<memory, file, context, plan, planInfo, stepIdx, calls, applied,
                   execResult, summaries, auto_remediate, ret, env>>

\* where run() goes after the current Issue: the next Issue, or the sleep
AfterIssue == IF idx < Len(issues) THEN "plan" ELSE "sleep"

\* lines 300-305: printing the Plan reads step['action'] and
\* step['reasoning'] of every Step; KeyError when a Step lacks one
PrintPlanRaises(p) ==
    \E i \in 1..Len(p) : ~IsSome(p[i].action) \/ ~IsSome(p[i].reasoning)

\* mutant of ActEnabled: the Plan is executed whatever the configuration
ActAlways(auto) == TRUE

\* line 308: "if self.auto_remediate"
ActEnabled(auto) == auto

\* lines 295-310, 325-326: gather the context, plan, print the Plan, and
\* enter execute_plan when acting is enabled
PlanIssue ==
    /\ pc = "plan"
    /\ \E ctx \in LoopContexts :
         \E llm \in IF NeedsLlm(issues[idx], ctx, memory) THEN LoopLlmOutcomes
                    ELSE {LlmNotCalled} :
            /\ context' = ctx
            /\ planInfo' = CreatePlan(issues[idx], ctx, memory, llm)
            /\ plan' = planInfo'.plan
            /\ IF PrintPlanRaises(plan')
               THEN /\ pc' = "crashed"
                    /\ UNCHANGED <<idx, stepIdx, calls, applied, execResult>>
               ELSE IF ActEnabled(auto_remediate)
               THEN /\ pc' = "act"
                    /\ stepIdx' = 1
                    /\ calls' = <<>>
                    /\ applied' = <<>>
                    /\ execResult' = "running"
                    /\ UNCHANGED idx
               ELSE /\ pc' = AfterIssue
                    /\ idx' = IF idx < Len(issues) THEN idx + 1 ELSE idx
                    /\ UNCHANGED <<stepIdx, calls, applied, execResult>>
    /\ UNCHANGED <<memory, file, iteration, issues, summaries, auto_remediate, ret, env>>

\* execute_plan, one Step: the lookup of the Step's keys, the dispatch, the
\* tool call (its subprocess ends in one of KubectlOutcomes) and the return
\* or continue; an exception leaving the tool leaves execute_plan and run()
ExecStep ==
    /\ pc = "act"
    /\ LET step == plan[stepIdx]
       IN  IF StepLookupRaises(step)
           THEN /\ execResult' = "raised"
                /\ pc' = "crashed"
                /\ UNCHANGED <<stepIdx, calls, applied>>
           ELSE LET cmd == Command(issues[idx], Get(step.action), Get(step.details))
                IN  \E outcome \in IF IsSome(cmd) THEN KubectlOutcomes ELSE {"notrun"} :
                     LET success == IF IsSome(cmd) THEN ToolReturns(outcome) ELSE "false"
                         ok == success = "true"
                     IN /\ calls' = IF IsSome(cmd)
                                    THEN Append(calls, [step |-> stepIdx, cmd |-> Get(cmd),
                                                        outcome |-> outcome, ok |-> ok])
                                    ELSE calls
                        /\ IF success = "raised"
                           THEN /\ execResult' = "raised"
                                /\ pc' = "crashed"
                                /\ UNCHANGED <<stepIdx, applied>>
                           ELSE /\ applied' = Append(applied,
                                                IF ~IsSome(cmd) THEN "nocall"
                                                ELSE IF ok THEN "ok" ELSE "failed")
                                /\ execResult' = AfterStep(ok, stepIdx, Len(plan))
                                /\ IF execResult' = "running"
                                   THEN pc' = "act" /\ stepIdx' = stepIdx + 1
                                   ELSE IF execResult' = "true"
                                   THEN pc' = "settle" /\ stepIdx' = stepIdx
                                   ELSE pc' = "learn" /\ stepIdx' = 1
    /\ UNCHANGED <<memory, file, iteration, issues, idx, context, plan, planInfo,
                   summaries, auto_remediate, ret, env>>

\* line 427: the settle delay after a successful Step is over, execute_plan
\* returns True
Settle ==
    /\ pc = "settle"
    /\ pc' = "learn"
    /\ stepIdx' = 1
    /\ UNCHANGED <<memory, file, iteration, issues, idx, context, plan, planInfo,
                   calls, applied, execResult, summaries, auto_remediate, ret, env>>

\* mutant of LearnMore: the Learn loop stops after its first store_attempt
LearnFirstOnly(i, p) == FALSE

\* line 313, "for step in plan": Steps remain after the i-th
LearnMore(i, p) == i < Len(p)

\* lines 312-324: one store_attempt of the Learn loop, with the Plan's
\* overall result as the Attempt's success flag
LearnStep ==
    /\ pc = "learn"
    /\ LET step == plan[stepIdx]
       IN  /\ memory' = StoreAttempt(memory,
                          MkAttempt(issues[idx], Get(step.action), Get(step.details),
                                    execResult = "true", Get(step.reasoning)))
           /\ file' = SaveMemory(memory')
    /\ IF LearnMore(stepIdx, plan)
       THEN /\ stepIdx' = stepIdx + 1
            /\ UNCHANGED <<pc, idx>>
       ELSE /\ pc' = AfterIssue
            /\ idx' = IF idx < Len(issues) THEN idx + 1 ELSE idx
            /\ UNCHANGED stepIdx
    /\ UNCHANGED <<iteration, issues, context, plan, planInfo, calls, applied,
                   execResult, summaries, auto_remediate, ret, env>>

\* line 331: asyncio.sleep(self.interval) returns
Sleep ==
    /\ pc = "sleep"
    /\ pc' = "top"
    /\ UNCHANGED <<memory, file, iteration, issues, idx, context, plan, planInfo,
                   stepIdx, calls, applied, execResult, summaries, auto_remediate, ret, env>>

\* lines 333-337: Ctrl+C while the coroutine is executing (an interpreter
\* that raises KeyboardInterrupt where the main thread is: in the loop's own
\* code, in create_plan, inside a tool's subprocess.run, in store_attempt).
\* "except Exception" in the tools does not catch it; run() does, and
\* prints the summary
KeyboardInterrupt ==
    /\ pc \in {"top", "plan", "act", "learn"}
    /\ pc' = "stopped"
    /\ summaries' = summaries + 1
    /\ UNCHANGED <<memory, file, iteration, issues, idx, context, plan, planInfo,
                   stepIdx, calls, applied, execResult, auto_remediate, ret, env>>

\* Ctrl+C honoured while run() is suspended in asyncio.sleep (line 331, or
\* line 427 inside execute_plan): asyncio.run cancels the task, the await
\* raises CancelledError, which "except KeyboardInterrupt" (line 333) does
\* not catch; run() is left without the summary
Cancelled ==
    /\ pc \in {"settle", "sleep"}
    /\ pc' = "cancelled"
    /\ UNCHANGED <<memory, file, iteration, issues, idx, context, plan, planInfo,
                   stepIdx, calls, applied, execResult, summaries, auto_remediate, ret, env>>

Next ==
    \/ Run
    \/ ObserveCycle
    \/ PlanIssue
    \/ ExecStep
    \/ Settle
    \/ LearnStep
    \/ Sleep
    \/ KeyboardInterrupt
    \/ Cancelled

Spec == Init /\ [][Next]_vars

----------------------------------------------------------------------------
(* main(): the start of the process, followed by the loop *)

\* agentic_memory.json when the process starts: missing, "{}", or the file a
\* previous run left after learning one restart
StartupFiles ==
    LET crash == MkIssue(PodWeb, "Waiting", "CrashLoopBackOff", "back-off")
    IN  {None,
         Some(FileJson(JsonObject(<<>>))),
         SaveMemory(StoreAttempt(EmptyMemory,
                        MkAttempt(crash, "restart_pod", DetailsRestart(crash), TRUE,
                                  "restart")))}

\* reset_memory_if_requested: --fresh removes the file; without it the file
\* is only read
ResetMemoryIfRequested(fresh, f) == IF fresh /\ IsSome(f) THEN None ELSE f

\* mutant of MainOutcome: the memory reset comes before the credential check
MainOutcomeResetFirst(e, f) ==
    IF ~e.key THEN [exit |-> 1, file |-> ResetMemoryIfRequested(e.fresh, f)]
    ELSE [exit |-> 0, file |-> ResetMemoryIfRequested(e.fresh, f)]

\* main() lines 458-469: sys.exit(1) without the credential, before anything
\* else; with it the memory reset. exit 0 stands for "goes on"
MainOutcome(e, f) ==
    IF ~e.key THEN [exit |-> 1, file |-> f]
    ELSE [exit |-> 0, file |-> ResetMemoryIfRequested(e.fresh, f)]

MainInit ==
    /\ memory = EmptyMemory
    /\ file \in StartupFiles
    /\ ret = NoRet
    /\ env \in [key : BOOLEAN, fresh : BOOLEAN]
    /\ iteration = 0
    /\ issues = <<>>
    /\ idx = 0
    /\ context = NoContext
    /\ plan = <<>>
    /\ planInfo = NoPlanInfo
    /\ stepIdx = 0
    /\ calls = <<>>
    /\ applied = <<>>
    /\ execResult = "none"
    /\ summaries = 0
    /\ pc = "main"
    /\ auto_remediate \in BOOLEAN

\* main() up to asyncio.run: the credential check, the memory reset, and
\* AgenticMonitor.__init__, which loads the Memory and reads its statistics
\* (KeyError when the loaded value lacks a key)
MainStart ==
    /\ pc = "main"
    /\ LET out == MainOutcome(env, file)
           loaded == LoadMemory(out.file)
       IN  /\ file' = out.file
           /\ IF out.exit = 1
              THEN pc' = "exit1" /\ UNCHANGED memory
              ELSE /\ memory' = loaded
                   /\ pc' = IF HasAttempts(loaded) /\ HasPatterns(loaded)
                            THEN "idle" ELSE "crashed"
    /\ UNCHANGED <<iteration, issues, idx, context, plan, planInfo, stepIdx, calls,
                   applied, execResult, summaries, auto_remediate, ret, env>>

MainNext == MainStart \/ Next

SpecMain == MainInit /\ [][MainNext]_vars

----------------------------------------------------------------------------
(* Observe harness: observe() applied to the answers "kubectl get pods"  *)
(* can give                                                              *)

\* state.waiting without "reason" and "message"
ContainerWaitingBare ==
    [name |-> "app", ready |-> FALSE, state |-> "waiting", reason |-> None,
     message |-> None, exitCode |-> None]
\* the container statuses observed: ready; running but not ready (state
\* has neither "waiting" nor "terminated"); waiting with and without a
\* reason; terminated with and without reason and exit code
ObservedStatuses ==
    {ContainerReady,
     [ContainerReady EXCEPT !.ready = FALSE],
     ContainerWaiting("CrashLoopBackOff"),
     ContainerWaitingBare,
     ContainerTerminated("OOMKilled", 137),
     [ContainerWaitingBare EXCEPT !.state = "terminated"]}

\* the outcome of "kubectl get pods -o json": it failed, or it gave items
\* (no pod, one pod, two pods).  status.containerStatuses of a pod has up
\* to MaxContainers entries; the empty list also stands for a pod without
\* the key
GetPodsReplies ==
    LET StatusLists == UNION {[1..n -> ObservedStatuses] : n \in 0..MaxContainers}
        ObservedPods(pod_name) ==
            {[name |-> pod_name, containerStatuses |-> s] : s \in StatusLists}
        PodLists ==
            {<<>>} \cup {<<p>> : p \in ObservedPods(PodWeb)}
                   \cup {<<p, q>> : p \in ObservedPods(PodWeb), q \in ObservedPods(PodDb)}
    IN  {[ok |-> FALSE, items |-> <<>>]} \cup {[ok |-> TRUE, items |-> l] : l \in PodLists}

\* KubernetesTools.get_pods: "except Exception: return []"
GetPods(reply) == IF reply.ok THEN reply.items ELSE <<>>

ObserveInit == InitCommon /\ pc = "o_idle" /\ auto_remediate = TRUE

\* AgenticMonitor.observe()
OObserve ==
    /\ pc = "o_idle"
    /\ \E reply \in GetPodsReplies :
         /\ issues' = Observe(GetPods(reply))
         /\ ret' = [op |-> "observe", arg |-> reply, value |-> <<>>, raised |-> FALSE]
    /\ pc' = "o_done"
    /\ UNCHANGED <<memory, file, iteration, idx, context, plan, planInfo, stepIdx,
                   calls, applied, execResult, summaries, auto_remediate, env>>

\* the caller drops the list; the monitor is ready to observe again
ODiscard ==
    /\ pc = "o_done"
    /\ pc' = "o_idle"
    /\ issues' = <<>>
    /\ ret' = NoRet
    /\ UNCHANGED <<memory, file, iteration, idx, context, plan, planInfo, stepIdx,
                   calls, applied, execResult, summaries, auto_remediate, env>>

ObserveNext == OObserve \/ ODiscard

SpecObserve == ObserveInit /\ [][ObserveNext]_vars

----------------------------------------------------------------------------
(* Executor harness: execute_plan(issue, plan) called with any Issue and  *)
(* any Plan of Steps that have their keys                                 *)

\* the Issues of the planner harness and one of a pod whose name has a
\* single segment (a bare pod)
ExecIssues ==
    Issues \cup {MkIssue(<<"job">>, "Terminated", "Error", "Exit code: 1. ")}

\* Steps as create_plan can return them: each action kind with details that
\* name a deployment and details that do not, a fix_image_name without
\* new_image and with an empty one, a kind outside the enumeration
ExecSteps ==
    LET Api == Some(<<"api">>)
        S(action, details) == MkStep(Some(action), Some(details), Some("r"), Some("high"))
    IN  {S("restart_pod", NoDetails),
         S("restart_pod", [NoDetails EXCEPT !.deployment_name = Api]),
         S("update_env", NoDetails),
         S("update_env", [NoDetails EXCEPT !.deployment_name = Api,
                                           !.env_vars = Some({<<<<"DB", "HOST">>, "localhost">>})]),
         S("increase_memory", NoDetails),
         S("increase_memory", [NoDetails EXCEPT !.deployment_name = Api,
                                                !.new_limit = Some("1Gi")]),
         S("fix_image_name", [NoDetails EXCEPT !.new_image = Some(<<"n","g","i","n","x">>)]),
         S("fix_image_name", [NoDetails EXCEPT !.deployment_name = Api,
                                               !.new_image = Some(<<"n","g","i","n","x">>)]),
         S("fix_image_name", [NoDetails EXCEPT !.deployment_name = Api]),
         S("fix_image_name", [NoDetails EXCEPT !.new_image = Some(<<>>)]),
         S("scale_deployment", [NoDetails EXCEPT !.deployment_name = Api])}

ExecInit == InitCommon /\ pc = "e_idle" /\ auto_remediate = TRUE

\* line 309: execute_plan(issue, plan) is entered
ECall ==
    /\ pc = "e_idle"
    /\ \E issue \in ExecIssues,
          p \in UNION {[1..n -> ExecSteps] : n \in 1..MaxSteps} :
         /\ issues' = <<issue>>
         /\ plan' = p
    /\ idx' = 1
    /\ stepIdx' = 1
    /\ calls' = <<>>
    /\ applied' = <<>>
    /\ execResult' = "running"
    /\ pc' = "act"
    /\ UNCHANGED <<memory, file, iteration, context, planInfo, summaries,
                   auto_remediate, ret, env>>

\* execute_plan has returned; the caller is ready for another call
EReturn ==
    /\ pc = "learn"
    /\ pc' = "e_idle"
    /\ issues' = <<>>
    /\ plan' = <<>>
    /\ idx' = 0
    /\ stepIdx' = 0
    /\ calls' = <<>>
    /\ applied' = <<>>
    /\ execResult' = "none"
    /\ UNCHANGED <<memory, file, iteration, context, planInfo, summaries,
                   auto_remediate, ret, env>>

ExecNext == ECall \/ ExecStep \/ Settle \/ EReturn

SpecExecutor == ExecInit /\ [][ExecNext]_vars

----------------------------------------------------------------------------
(* The image-typo detectors: Planner._detect_image_typo and               *)
(* image_fixer.detect_and_fix_typo, applied to image references and to    *)
(* their own output                                                       *)

\* image_fixer.COMMON_TYPOS: the same seven entries as planner.IMAGE_TYPO_MAP,
\* in the same order
COMMON_TYPOS == IMAGE_TYPO_MAP

\* image_fixer.detect_and_fix_typo
DetectAndFixTypo(image_name) ==
    LET \* the index of the first entry of COMMON_TYPOS whose typo occurs in
        \* s.lower(), or 0
        FirstCommonTypo(s) ==
            LET hits == {k \in 1..Len(COMMON_TYPOS) :
                            Contains(Lower(s), COMMON_TYPOS[k].typo)}
            IN  IF hits = {} THEN 0 ELSE CHOOSE k \in hits : \A j \in hits : k <= j
        colons == {i \in 1..Len(image_name) : image_name[i] = ":"}
        c == IF colons = {} THEN 0 ELSE CHOOSE i \in colons : \A j \in colons : i <= j
        \* image_name.split(":", 1), or the default tag
        name == IF c = 0 THEN image_name ELSE SubSeq(image_name, 1, c - 1)
        tag == IF c = 0 THEN <<"l","a","t","e","s","t">>
               ELSE SubSeq(image_name, c + 1, Len(image_name))
        kn == FirstCommonTypo(name)
        kt == FirstCommonTypo(tag)
    IN  IF kn # 0
        THEN Some(Replace(Lower(name), COMMON_TYPOS[kn].typo, COMMON_TYPOS[kn].correct)
                    \o <<":">> \o tag)
        ELSE IF kt # 0
        THEN Some(name \o <<":">>
                    \o Replace(Lower(tag), COMMON_TYPOS[kt].typo, COMMON_TYPOS[kt].correct))
        ELSE None

\* Planner._detect_image_typo on a description that declares image: the
\* corrected reference, or None
DetectTypoIn(image) ==
    LET r == DetectImageTypo([pod_description |-> <<[label |-> "Image", value |-> image]>>,
                              logs |-> <<>>])
    IN  IF IsSome(r) THEN Some(Get(r).corrected) ELSE None

\* image references: a name that is a dictionary misspelling or a correct
\* spelling, alone or with a tag that is a misspelling, "latest" or a version
ImageRefs ==
    LET ImageNames ==
            {IMAGE_TYPO_MAP[k].typo : k \in 1..Len(IMAGE_TYPO_MAP)}
                \cup {IMAGE_TYPO_MAP[k].correct : k \in 1..Len(IMAGE_TYPO_MAP)}
        ImageTags ==
            {<<"l","a","t","s","t">>, <<"l","a","s","t","e","s","t">>,
             <<"l","a","t","e","s","t">>, <<"1",".","2">>}
    IN  ImageNames \cup {n \o <<":">> \o t : n \in ImageNames, t \in ImageTags}

TypoInit == InitCommon /\ pc = "t_idle" /\ auto_remediate = TRUE

\* Planner._detect_image_typo(context)
TDetectImageTypo ==
    /\ pc = "t_idle"
    /\ \E image \in ImageRefs :
         ret' = [op |-> "detect_image_typo", arg |-> image,
                 value |-> DetectTypoIn(image), raised |-> FALSE]
    /\ pc' = "t_once"
    /\ UNCHANGED <<memory, file, iteration, issues, idx, context, plan, planInfo,
                   stepIdx, calls, applied, execResult, summaries, auto_remediate, env>>

\* image_fixer.detect_and_fix_typo(image_name)
TDetectAndFixTypo ==
    /\ pc = "t_idle"
    /\ \E image \in ImageRefs :
         ret' = [op |-> "detect_and_fix_typo", arg |-> image,
                 value |-> DetectAndFixTypo(image), raised |-> FALSE]
    /\ pc' = "t_once"
    /\ UNCHANGED <<memory, file, iteration, issues, idx, context, plan, planInfo,
                   stepIdx, calls, applied, execResult, summaries, auto_remediate, env>>

\* the same detector is given the reference it returned
TDetectAgain ==
    /\ pc = "t_once"
    /\ IsSome(ret.value)
    /\ ret' = [ret EXCEPT !.arg = Get(ret.value),
                          !.value = IF ret.op = "detect_image_typo"
                                    THEN DetectTypoIn(Get(ret.value))
                                    ELSE DetectAndFixTypo(Get(ret.value))]
    /\ pc' = "t_twice"
    /\ UNCHANGED <<memory, file, iteration, issues, idx, context, plan, planInfo,
                   stepIdx, calls, applied, execResult, summaries, auto_remediate, env>>

\* the caller drops the result
TDiscard ==
    /\ pc \in {"t_once", "t_twice"}
    /\ ret' = NoRet
    /\ pc' = "t_idle"
    /\ UNCHANGED <<memory, file, iteration, issues, idx, context, plan, planInfo,
                   stepIdx, calls, applied, execResult, summaries, auto_remediate, env>>

TypoNext == TDetectImageTypo \/ TDetectAndFixTypo \/ TDetectAgain \/ TDiscard

SpecTypo == TypoInit /\ [][TypoNext]_vars

----------------------------------------------------------------------------
(* The log-based remediation flow (src/remediation.py).  Here "file" is   *)
(* remediation.log: None while it does not exist, else Some(its lines);   *)
(* "calls" is the sequence of mutating kubectl commands run.              *)

\* subprocess.CompletedProcess of a kubectl command: exit status, stdout
\* and stderr ("" when the stream is empty)
CommandResults ==
    {[returncode |-> 0, stdout |-> "patched", stderr |-> ""],
     [returncode |-> 0, stdout |-> "patched", stderr |-> "Warning: deprecated"],
     [returncode |-> 1, stdout |-> "", stderr |-> "Error from server"],
     [returncode |-> 1, stdout |-> "", stderr |-> ""]}

\* log_remediation_action: the line written, as its " | "-separated fields
\* (the timestamp plays no part)
LogLine(cmd, result) ==
    [command |-> cmd, returncode |-> result.returncode,
     output |-> result.stdout, error |-> result.stderr]

\* one line of parse_remediation_log: line.strip() removes the blank that
\* ends "Error: " when stderr was empty, parts[4].split(": ", 1) then has
\* one element and [1] raises IndexError, which "except Exception:
\* continue" turns into skipping the line
ParseLine(line) ==
    IF line.error = "" THEN None
    ELSE Some([command |-> line.command, returncode |-> line.returncode,
               output |-> line.output, error |-> line.error])

RECURSIVE ParseLines(_)
ParseLines(lines) ==
    IF lines = <<>> THEN <<>>
    ELSE LET entry == ParseLine(Head(lines))
         IN  (IF IsSome(entry) THEN <<Get(entry)>> ELSE <<>>) \o ParseLines(Tail(lines))

\* parse_remediation_log: [] when the file does not exist
ParseRemediationLog(f) == IF IsSome(f) THEN ParseLines(Get(f)) ELSE <<>>

\* was_remediation_successful: the return code of the last entry of the
\* history with this command decides; False without one
WasRemediationSuccessful(command, history) ==
    LET hits == {i \in 1..Len(history) : history[i].command = command}
    IN  IF hits = {} THEN FALSE
        ELSE history[CHOOSE i \in hits : \A j \in hits : j <= i].returncode = 0

\* remediation.increase_memory(mem_str, factor=1.5) on a limit given as its
\* number and unit: int(val * 1.5) with the same unit, None for an unknown
\* unit
IncreaseMemory(mem) ==
    IF mem.unit \in {"Mi", "Gi"}
    THEN Some([val |-> (mem.val * 3) \div 2, unit |-> mem.unit])
    ELSE None

\* generate_patch_memory_cmd and restart_pod's cmd, " ".join-ed
PatchMemoryCmd(pod_name, new_limit) ==
    <<"kubectl", "patch", "pod", pod_name, "-n", Namespace, "--type=merge", new_limit>>
RestartCmd(pod_name) == <<"kubectl", "delete", "pod", pod_name, "-n", Namespace>>

\* run_command(cmd) followed by log_remediation_action (apply_patch and
\* restart_pod)
RunAndLog(cmd, result) ==
    /\ calls' = Append(calls, cmd)
    /\ file' = Some(Append(IF IsSome(file) THEN Get(file) ELSE <<>>, LogLine(cmd, result)))

LogInit == InitCommon /\ pc = "r_idle" /\ auto_remediate = TRUE

\* remediate_pod with "OOMKilled" in the diagnosis (lines 159-184); in a
\* dry run the patch is applied when the user confirms
RemediateOOMKilled ==
    /\ pc = "r_idle"
    /\ IsSome(file) => Len(Get(file)) < MaxLog
    /\ \E pod_name \in {"web", "db"}, dry_run \in BOOLEAN, confirm \in BOOLEAN,
          result \in CommandResults,
          \* get_current_memory_limit: None (kubectl failed, no limit set) or
          \* the limit of the first container
          current_mem \in {None, Some([val |-> 200, unit |-> "Mi"]),
                           Some([val |-> 2, unit |-> "Gi"]),
                           Some([val |-> 512, unit |-> "M"])} :
         LET history == ParseRemediationLog(file)
             recommended_mem == IF IsSome(current_mem) THEN IncreaseMemory(Get(current_mem))
                                ELSE None
             cmd == PatchMemoryCmd(pod_name, Get(recommended_mem))
         IN  IF ~IsSome(current_mem) \/ ~IsSome(recommended_mem)
             THEN /\ ret' = [op |-> "remediate_pod", arg |-> <<>>, value |-> "skipped",
                             raised |-> FALSE]
                  /\ UNCHANGED <<calls, file>>
             ELSE IF WasRemediationSuccessful(cmd, history)
             THEN /\ ret' = [op |-> "remediate_pod", arg |-> cmd, value |-> "already",
                             raised |-> FALSE]
                  /\ UNCHANGED <<calls, file>>
             ELSE IF dry_run /\ ~confirm
             THEN /\ ret' = [op |-> "remediate_pod", arg |-> cmd, value |-> "declined",
                             raised |-> FALSE]
                  /\ UNCHANGED <<calls, file>>
             ELSE /\ ret' = [op |-> "remediate_pod", arg |-> cmd, value |-> "issued",
                             raised |-> FALSE]
                  /\ RunAndLog(cmd, result)
    /\ UNCHANGED <<memory, pc, iteration, issues, idx, context, plan, planInfo, stepIdx,
                   applied, execResult, summaries, auto_remediate, env>>

\* remediate_pod with "CrashLoopBackOff" in the diagnosis (lines 186-194)
RemediateCrashLoop ==
    /\ pc = "r_idle"
    /\ IsSome(file) => Len(Get(file)) < MaxLog
    /\ \E pod_name \in {"web", "db"}, dry_run \in BOOLEAN, result \in CommandResults :
         LET history == ParseRemediationLog(file)
             cmd == RestartCmd(pod_name)
         IN  IF WasRemediationSuccessful(cmd, history)
             THEN /\ ret' = [op |-> "remediate_pod", arg |-> cmd, value |-> "already",
                             raised |-> FALSE]
                  /\ UNCHANGED <<calls, file>>
             ELSE IF dry_run
             THEN /\ ret' = [op |-> "remediate_pod", arg |-> cmd, value |-> "declined",
                             raised |-> FALSE]
                  /\ UNCHANGED <<calls, file>>
             ELSE /\ ret' = [op |-> "remediate_pod", arg |-> cmd, value |-> "issued",
                             raised |-> FALSE]
                  /\ RunAndLog(cmd, result)
    /\ UNCHANGED <<memory, pc, iteration, issues, idx, context, plan, planInfo, stepIdx,
                   applied, execResult, summaries, auto_remediate, env>>

\* remediate_pod with a probe failure or any other diagnosis (lines 196-204):
\* messages only
RemediateNoAction ==
    /\ pc = "r_idle"
    /\ ret' = [op |-> "remediate_pod", arg |-> <<>>, value |-> "none", raised |-> FALSE]
    /\ UNCHANGED <<memory, file, pc, iteration, issues, idx, context, plan, planInfo,
                   stepIdx, calls, applied, execResult, summaries, auto_remediate, env>>

LogNext == RemediateOOMKilled \/ RemediateCrashLoop \/ RemediateNoAction

SpecLog == LogInit /\ [][LogNext]_vars

----------------------------------------------------------------------------
(* Claims about Planner.create_plan, checked under SpecPlanner *)

\* the Issue that create_plan was called with
CurIssue == issues[idx]

Planned == pc = "planned"

\* the tier-1 trigger conditions, read off the inputs
ImageTrigger ==
    /\ CurIssue.reason \in {"ImagePullBackOff", "ErrImagePull"}
    /\ IsSome(ImageMatch(context.pod_description))
    /\ \E k \in 1..Len(IMAGE_TYPO_MAP) :
         Contains(Lower(Get(ImageMatch(context.pod_description))), IMAGE_TYPO_MAP[k].typo)

EnvTrigger ==
    /\ CurIssue.reason = "CrashLoopBackOff"
    /\ \E i \in 1..Len(context.logs) :
         context.logs[i].empty /\ context.logs[i].name \notin LOG_WORDS

NoHeuristic == ~ImageTrigger /\ ~EnvTrigger

\* the successful Attempts logged for the signature of CurIssue
SuccessesFor(issue) ==
    {i \in 1..Len(memory.attempts) :
        /\ memory.attempts[i].success
        /\ memory.attempts[i].issue.status = issue.status
        /\ memory.attempts[i].issue.reason = issue.reason}

\* the most recent of them
LastSuccessFor(issue) ==
    memory.attempts[CHOOSE i \in SuccessesFor(issue) :
                        \A j \in SuccessesFor(issue) : j <= i]

HasPattern(issue) ==
    /\ PatternKey(issue) \in DOMAIN memory.patterns
    /\ memory.patterns[PatternKey(issue)].success_count >= 1

\* C1: create_plan never raises and never returns an empty Plan, whatever
\* the Issue, the context, the memory and the reasoning-service outcome.
C1_PlanTotalNonEmpty == Planned => (~planInfo.raised /\ Len(plan) >= 1)

\* C1 witness: a reply whose array holds an entry that is not an object was
\* planned for (the error is caught and the safe default returned)
C1_Witness ==
    /\ Planned
    /\ planInfo.llm.kind = "text"
    /\ \E i \in 1..Len(planInfo.llm.entries) : planInfo.llm.entries[i].kind = "string"
    /\ planInfo.tier = "fallback_error"
    /\ Len(plan) = 1

\* C2: every Step of a returned Plan has an action kind of the enumeration.
C2_ActionsInEnumeration ==
    Planned => \A i \in 1..Len(plan) :
                  IsSome(plan[i].action) /\ Get(plan[i].action) \in VALID_ACTIONS

\* C2 witness: a reasoning-tier Plan from a reply that also held an entry
\* with an action kind outside the enumeration
C2_Witness ==
    /\ Planned
    /\ planInfo.tier = "llm"
    /\ \E i \in 1..Len(planInfo.llm.entries) : planInfo.llm.entries[i] = ObjBogus

\* C5: when a heuristic detector's trigger condition holds, the Plan is one
\* high-confidence Step of the detector's action kind, and neither the
\* memory nor the reasoning service was consulted.
C5_HeuristicWins ==
    Planned =>
      /\ ImageTrigger =>
           /\ Len(plan) = 1
           /\ plan[1].action = Some("fix_image_name")
           /\ plan[1].confidence = Some("high")
           /\ ~planInfo.recalled
           /\ planInfo.llm = LlmNotCalled
      /\ (~ImageTrigger /\ EnvTrigger) =>
           /\ Len(plan) = 1
           /\ plan[1].action = Some("update_env")
           /\ plan[1].confidence = Some("high")
           /\ ~planInfo.recalled
           /\ planInfo.llm = LlmNotCalled

\* C5 witness: a heuristic fired for a signature that has a Pattern
C5_Witness == Planned /\ (ImageTrigger \/ EnvTrigger) /\ HasPattern(CurIssue)

\* C6 as stated: with a Pattern of success count >= 1 and no heuristic, the
\* first Step of the Plan is the most recent successful Step of the signature.
C6_Original ==
    (Planned /\ NoHeuristic /\ HasPattern(CurIssue)) =>
        /\ plan[1].action = Some(LastSuccessFor(CurIssue).action)
        /\ plan[1].details = Some(LastSuccessFor(CurIssue).action_details)

\* C6 amended: the same, for a Pattern whose stored Step has an action kind
\* of the enumeration.
C6_RecallsLastSuccess ==
    (/\ Planned
     /\ NoHeuristic
     /\ HasPattern(CurIssue)
     /\ Last(memory.patterns[PatternKey(CurIssue)].successful_actions).action
            \in VALID_ACTIONS) =>
        /\ plan[1].action = Some(LastSuccessFor(CurIssue).action)
        /\ plan[1].details = Some(LastSuccessFor(CurIssue).action_details)

\* C6 witness: a Plan recalled for a signature with two successes on record,
\* of different action kinds
C6_Witness ==
    /\ Planned
    /\ planInfo.tier = "memory"
    /\ Cardinality(SuccessesFor(CurIssue)) = 2
    /\ \E i, j \in SuccessesFor(CurIssue) :
         memory.attempts[i].action # memory.attempts[j].action

\* C7: a stored Step whose action kind is outside the enumeration is not
\* reused: planning goes on to the reasoning service and the stored Step
\* is not in the Plan; a Plan of the memory tier has a valid action kind.
C7_InvalidRecallSkipped ==
    (Planned /\ NoHeuristic /\ HasPattern(CurIssue)) =>
        LET stored == Last(memory.patterns[PatternKey(CurIssue)].successful_actions)
        IN  /\ stored.action \notin VALID_ACTIONS =>
                /\ planInfo.tier \in {"llm", "fallback_parse", "fallback_error"}
                /\ planInfo.llm # LlmNotCalled
                /\ \A i \in 1..Len(plan) : plan[i].action # Some(stored.action)
            /\ planInfo.tier = "memory" => stored.action \in VALID_ACTIONS

\* C7 witness: the stored Step is invalid and the reasoning service answered
C7_Witness ==
    /\ Planned
    /\ NoHeuristic
    /\ HasPattern(CurIssue)
    /\ Last(memory.patterns[PatternKey(CurIssue)].successful_actions).action
         \notin VALID_ACTIONS
    /\ planInfo.tier = "llm"

\* the entries of es that are objects with a valid action kind, in order
ValidEntries(es) ==
    FilterSeq(es, {e \in ReplyEntries :
                     e.kind = "object" /\ IsSome(e.action) /\ Get(e.action) \in VALID_ACTIONS})

\* C8 as stated: a reply holding a JSON array with at least one valid Step,
\* with or without prose around it and with or without other entries, gives
\* exactly the valid Steps, in their order.
C8_Original ==
    (/\ Planned
     /\ planInfo.llm.kind = "text"
     /\ planInfo.llm.shape \in {"array", "in_prose", "after_bracketed_prose"}
     /\ ValidEntries(planInfo.llm.entries) # <<>>)
    => plan = ValidEntries(planInfo.llm.entries)

\* a reasoning-service failure: the call raised, the reply has no content,
\* no array, a truncated array, or an array without any valid Step
LlmFailure(llm) ==
    \/ llm.kind \in {"raise", "null"}
    \/ /\ llm.kind = "text"
       /\ \/ llm.shape \in {"no_array", "truncated"}
          \/ ValidEntries(llm.entries) = <<>>

\* C9: on a reasoning-service failure the Plan is the safe default: one
\* low-confidence restart_pod Step naming the failing pod.
C9_SafeDefault ==
    (Planned /\ LlmFailure(planInfo.llm)) =>
        /\ Len(plan) = 1
        /\ plan[1].action = Some("restart_pod")
        /\ plan[1].confidence = Some("low")
        /\ IsSome(plan[1].details)
        /\ Get(plan[1].details).pod_name = Some(CurIssue.pod_name)
        /\ Get(plan[1].details).namespace = Some(CurIssue.namespace)

\* C9 witness: the reply's array held only entries without a valid action
C9_Witness ==
    /\ Planned
    /\ planInfo.llm.kind = "text"
    /\ planInfo.llm.shape = "array"
    /\ planInfo.llm.entries = <<ObjBogus, ObjBogus>>
    /\ planInfo.tier = "fallback_parse"

----------------------------------------------------------------------------
(* Claims about execute_plan and run(), checked under Spec *)

\* the Attempt log holds a success for the command cmd
RecordedSuccess(cmd) ==
    \E k \in 1..Len(memory.attempts) :
        /\ memory.attempts[k].success
        /\ Command(memory.attempts[k].issue, memory.attempts[k].action,
                   memory.attempts[k].action_details) = Some(cmd)

\* execute_plan is running or has just returned, and Learn has stored nothing
\* of this Plan yet: the Attempt log is the one execute_plan started with
LogAsAtExecution == pc \in {"act", "settle"} \/ (pc = "learn" /\ stepIdx = 1)

\* C3 as stated: a mutating command that the Attempt log already records as
\* successful is not issued to the control plane again.
C3_Original ==
    LogAsAtExecution => \A i \in 1..Len(calls) : ~RecordedSuccess(calls[i].cmd)

\* C4: execute_plan applies the Steps in their order, returns true at the
\* first Step whose apply succeeds, applying none after it, and returns
\* false exactly when every Step was gone through without a success.
C4_FirstSuccessStops ==
    pc \in {"act", "settle", "learn"} =>
        /\ Len(applied) <= Len(plan)
        /\ \A i \in 1..Len(calls) :
              /\ calls[i].step \in 1..Len(applied)
              /\ applied[calls[i].step] \in {"ok", "failed"}
              /\ Some(calls[i].cmd) = Command(issues[idx],
                                              Get(plan[calls[i].step].action),
                                              Get(plan[calls[i].step].details))
              /\ \A j \in 1..Len(calls) : i < j => calls[i].step < calls[j].step
        /\ execResult = "true" =>
              /\ Len(applied) >= 1
              /\ applied[Len(applied)] = "ok"
              /\ \A i \in 1..(Len(applied) - 1) : applied[i] # "ok"
        /\ execResult = "running" => \A i \in 1..Len(applied) : applied[i] # "ok"
        /\ execResult = "false" <=>
              (Len(applied) = Len(plan) /\ \A i \in 1..Len(applied) : applied[i] # "ok")

\* C4 witness: the first of two Steps succeeded and the second was not applied
C4_Witness ==
    /\ pc = "learn"
    /\ execResult = "true"
    /\ Len(plan) = 2
    /\ applied = <<"ok">>
    /\ Len(calls) = 1

\* C10 as stated: no reasoning-service reply and no external failure makes
\* run() end; only the stop signal does.
C10_Original == pc # "crashed"

\* C11 as stated: once execute_plan has started for an Issue, the loop does
\* not end on a stop signal before the Plan's execution and the Learn step
\* that records its outcome are complete.
C11_Original ==
    [][(pc \in {"act", "settle", "learn"}) => ~(pc' \in {"stopped", "cancelled"})]_vars

\* C12: a tool call whose subprocess fails is recorded as an unsuccessful
\* Step, no exception leaves execute_plan, and execute_plan goes on to the
\* next Step, or returns False after the last one.
C12_ToolFailureNotFatal ==
    [][(/\ pc = "act"
        /\ Len(calls') = Len(calls) + 1
        /\ Last(calls').outcome # "exit0")
       => /\ pc' # "crashed"
          /\ execResult' # "raised"
          /\ applied' = Append(applied, "failed")
          /\ IF stepIdx < Len(plan)
             THEN pc' = "act" /\ stepIdx' = stepIdx + 1 /\ execResult' = "running"
             ELSE pc' = "learn" /\ execResult' = "false"]_vars

\* C12 witness: the first Step's tool could not start kubectl, and the second
\* Step was then applied
C12_Witness ==
    /\ Len(calls) = 2
    /\ calls[1].step = 1
    /\ calls[1].outcome = "oserror"
    /\ calls[2].step = 2
    /\ applied[1] = "failed"

----------------------------------------------------------------------------
(* Claims about Memory, checked under SpecMemory *)

\* this step is a store_attempt that returned on a Memory holding both the
\* Attempt log and the Pattern table
Stored ==
    /\ pc = "m_ready"
    /\ HasAttempts(memory) /\ HasPatterns(memory)
    /\ ret'.op = "store"
    /\ ~ret'.raised
    /\ memory' # memory

\* a Pattern's counter before it exists
CountOr0(mem, key, field) ==
    IF key \in DOMAIN mem.patterns THEN mem.patterns[key][field] ELSE 0

\* C13: store_attempt appends exactly the given record to the end of the
\* Attempt log; for a success the Pattern of the Issue's signature exists
\* afterwards, its success and total counters are one higher than before
\* (from 0 when it did not exist), and recall for the signature returns this
\* attempt's Step.
C13_StoreAppendsAndLearns ==
    [][Stored =>
        LET a == ret'.arg
            key == PatternKey(a.issue)
        IN  /\ memory'.attempts = Append(memory.attempts, a)
            /\ a.success =>
                  /\ key \in DOMAIN memory'.patterns
                  /\ memory'.patterns[key].success_count
                        = CountOr0(memory, key, "success_count") + 1
                  /\ memory'.patterns[key].total_count
                        = CountOr0(memory, key, "total_count") + 1
                  /\ RecallSimilar(memory', a.issue) = Some(ActionEntry(a))]_vars

\* C13 witness: a second success of a signature was stored with another Step
\* than the first
C13_Witness ==
    /\ pc = "m_ready"
    /\ ret.op = "store"
    /\ ~ret.raised
    /\ HasPatterns(memory)
    /\ ret.arg.success
    /\ Len(memory.attempts) = 2
    /\ memory.attempts[1].success
    /\ PatternKey(memory.attempts[1].issue) = PatternKey(ret.arg.issue)
    /\ memory.attempts[1].action # ret.arg.action
    /\ memory.patterns[PatternKey(ret.arg.issue)].success_count = 2

\* C14: a failed store_attempt leaves the Pattern table as it was, a
\* successful one changes no Pattern but the one of the attempt's signature,
\* and no Memory operation removes a Pattern.
C14_PatternFrame ==
    [][(pc = "m_ready" /\ pc' = "m_ready" /\ HasPatterns(memory)) =>
        /\ HasPatterns(memory')
        /\ DOMAIN memory.patterns \subseteq DOMAIN memory'.patterns
        /\ (ret'.op # "store") => memory'.patterns = memory.patterns
        /\ (ret'.op = "store" /\ ~ret'.arg.success) =>
              memory'.patterns = memory.patterns
        /\ (ret'.op = "store" /\ ret'.arg.success) =>
              \A k \in DOMAIN memory'.patterns :
                 k # PatternKey(ret'.arg.issue) =>
                    (k \in DOMAIN memory.patterns
                     /\ memory'.patterns[k] = memory.patterns[k])]_vars

\* C14 witness: with the Pattern of one signature in the table, a failure of
\* another signature was stored
C14_Witness ==
    /\ pc = "m_ready"
    /\ ret.op = "store"
    /\ ~ret.raised
    /\ HasPatterns(memory)
    /\ ~ret.arg.success
    /\ Len(memory.attempts) = 2
    /\ memory.attempts[1].success
    /\ DOMAIN memory.patterns = {PatternKey(memory.attempts[1].issue)}
    /\ PatternKey(ret.arg.issue) # PatternKey(memory.attempts[1].issue)

\* C15: when store_attempt returns, the file holds the state: a fresh Memory
\* loaded from it reports the same statistics and recalls the same Step for
\* every signature.
C15_RoundTrip ==
    (/\ pc = "m_ready"
     /\ ret.op = "store"
     /\ ~ret.raised
     /\ HasPatterns(memory))
    => LET fresh == LoadMemory(file)
       IN  /\ IsSome(file)
           /\ HasAttempts(fresh)
           /\ HasPatterns(fresh)
           /\ GetStatistics(fresh) = GetStatistics(memory)
           /\ \A issue \in Issues :
                 RecallSimilar(fresh, issue) = RecallSimilar(memory, issue)

\* C15 witness: successes of two signatures were stored, the file holds both
\* Patterns
C15_Witness ==
    /\ pc = "m_ready"
    /\ ret.op = "store"
    /\ ~ret.raised
    /\ HasPatterns(memory)
    /\ Len(memory.attempts) = 2
    /\ Cardinality(DOMAIN memory.patterns) = 2
    /\ GetStatistics(LoadMemory(file)).patterns_learned = 2

\* C16 as stated: after loading, whatever the file held, the Memory has the
\* Attempt log and the Pattern table, and no later call raises.
C16_Original ==
    pc = "m_ready" => (HasAttempts(memory) /\ HasPatterns(memory) /\ ~ret.raised)

\* C17: recall returns the Step of the most recent successful Attempt of the
\* signature when there is one, which is exactly when the Pattern's success
\* counter is nonzero, and nothing otherwise.
C17_RecallLastSuccess ==
    (pc = "m_ready" /\ ret.op = "recall" /\ ~ret.raised) =>
        /\ IsSome(ret.value) <=> HasPattern(ret.arg)
        /\ ret.value = IF SuccessesFor(ret.arg) # {}
                       THEN Some(ActionEntry(LastSuccessFor(ret.arg)))
                       ELSE None

\* C17 witness: recall for a signature with a failed Attempt and no
\* successful one
C17_Witness ==
    /\ pc = "m_ready"
    /\ ret.op = "recall"
    /\ ~ret.raised
    /\ ret.value = None
    /\ \E i \in 1..Len(memory.attempts) :
          /\ PatternKey(memory.attempts[i].issue) = PatternKey(ret.arg)
          /\ ~memory.attempts[i].success

\* C18: within a run the Attempt log only grows at its end: the log before
\* any Memory operation is a prefix of the log after it.
C18_LogAppendOnly ==
    [][(pc = "m_ready" /\ pc' = "m_ready" /\ HasAttempts(memory)) =>
        /\ HasAttempts(memory')
        /\ Len(memory.attempts) <= Len(memory'.attempts)
        /\ SubSeq(memory'.attempts, 1, Len(memory.attempts)) = memory.attempts]_vars

\* C18 witness: two different records were stored one after the other
C18_Witness ==
    /\ pc = "m_ready"
    /\ ret.op = "store"
    /\ HasAttempts(memory)
    /\ Len(memory.attempts) = 2
    /\ memory.attempts[1] # memory.attempts[2]
    /\ memory.attempts[2] = ret.arg

\* 0 <= success_count <= total_count and total_count >= 1 for every Pattern
PatternsOk(mem) ==
    \A k \in DOMAIN mem.patterns :
        /\ 0 <= mem.patterns[k].success_count
        /\ mem.patterns[k].success_count <= mem.patterns[k].total_count
        /\ mem.patterns[k].total_count >= 1

\* C19: every Pattern has 0 <= success_count <= total_count and
\* total_count >= 1, no Memory operation of a run lowers a success counter,
\* and get_success_rate returns a rate between 0 and 1.
C19_CountersSound ==
    [][/\ HasPatterns(memory) => PatternsOk(memory)
       /\ HasPatterns(memory') => PatternsOk(memory')
       /\ (pc = "m_ready" /\ pc' = "m_ready" /\ HasPatterns(memory)) =>
             \A k \in DOMAIN memory.patterns :
                /\ k \in DOMAIN memory'.patterns
                /\ memory'.patterns[k].success_count >= memory.patterns[k].success_count
       /\ (ret'.op = "success_rate" /\ ~ret'.raised) =>
             /\ 0 <= ret'.value[1]
             /\ ret'.value[1] <= ret'.value[2]
             /\ ret'.value[2] >= 1]_vars

\* C19 witness: the rate of a Pattern with two successes was asked for
C19_Witness ==
    /\ pc = "m_ready"
    /\ ret.op = "success_rate"
    /\ ~ret.raised
    /\ ret.arg \in DOMAIN memory.patterns
    /\ memory.patterns[ret.arg].success_count = 2
    /\ ret.value = <<2, 2>>

\* C20: history(pod) is the subsequence of the Attempt log made of the
\* records whose Issue names that pod: all of them, no other, in log order.
C20_HistoryOfWorkload ==
    (pc = "m_ready" /\ ret.op = "history" /\ ~ret.raised) =>
        LET log == memory.attempts
            hits == {i \in 1..Len(log) : log[i].issue.pod_name = ret.arg}
        IN  /\ Len(ret.value) = Cardinality(hits)
            /\ \E f \in [1..Len(ret.value) -> hits] :
                  /\ \A k \in 1..Len(ret.value) : ret.value[k] = log[f[k]]
                  /\ \A k, l \in 1..Len(ret.value) : k < l => f[k] < f[l]

\* C20 witness: the log holds a record of each of two pods, and the history
\* of the second one was asked for
C20_Witness ==
    /\ pc = "m_ready"
    /\ ret.op = "history"
    /\ ~ret.raised
    /\ Len(memory.attempts) = 2
    /\ memory.attempts[1].issue.pod_name # ret.arg
    /\ memory.attempts[2].issue.pod_name = ret.arg
    /\ ret.value = <<memory.attempts[2]>>

----------------------------------------------------------------------------
(* Claims about the loop, checked under Spec *)

\* C21: with acting disabled, no step of the loop changes the Attempt log,
\* the Pattern table or the file, none enters execute_plan or Learn, no
\* control-plane call is recorded, and every Issue of a cycle is still
\* planned, one after the other.
C21_DisabledOnlyPlans ==
    [][~auto_remediate =>
        /\ memory' = memory
        /\ file' = file
        /\ calls' = <<>>
        /\ ~(pc' \in {"act", "settle", "learn"})
        /\ (pc = "top" /\ pc' = "plan") => idx' = 1
        /\ (pc = "plan" /\ pc' \in {"plan", "sleep"}) =>
              /\ Len(plan') >= 1
              /\ planInfo'.plan = plan'
              /\ IF idx < Len(issues) THEN pc' = "plan" /\ idx' = idx + 1
                 ELSE pc' = "sleep"]_vars

\* C21 witness: acting is disabled and the second cycle has planned both of
\* its Issues
C21_Witness ==
    /\ ~auto_remediate
    /\ pc = "sleep"
    /\ iteration = 2
    /\ Len(issues) = 2
    /\ idx = 2
    /\ Len(plan) >= 1
    /\ memory = EmptyMemory

----------------------------------------------------------------------------
(* Claims about the whole process, checked under SpecMain *)

\* C22: without the credential the process exits with status 1 at its first
\* step, and no step observes, plans, calls the control plane, constructs
\* the Memory or touches the file, --fresh or not.
C22_NoCredentialExits ==
    [][~env.key =>
        /\ pc = "main"
        /\ pc' = "exit1"
        /\ file' = file
        /\ memory' = memory
        /\ iteration' = 0
        /\ issues' = <<>>
        /\ planInfo' = NoPlanInfo
        /\ calls' = <<>>]_vars

\* C22 witness: the process has exited, --fresh was given and the file of the
\* previous run is still there
C22_Witness ==
    /\ pc = "exit1"
    /\ ~env.key
    /\ env.fresh
    /\ IsSome(file)
    /\ iteration = 0

----------------------------------------------------------------------------
(* Claims about stopping and learning, checked under Spec *)

\* C23 as stated: whenever a stop signal has ended the loop, the session
\* summary has been printed exactly once.
C23_Original == (pc \in {"stopped", "cancelled"}) => summaries = 1

\* C26 as stated: an Attempt that the Learn phase stores with success = true
\* names a Step that the Executor applied with success in this execution
\* of the Plan (not a Step that failed, nor one never tried).
C26_Original ==
    [][(/\ pc = "learn"
        /\ Len(memory'.attempts) = Len(memory.attempts) + 1
        /\ Last(memory'.attempts).success)
       => (stepIdx <= Len(applied) /\ applied[stepIdx] = "ok")]_vars

\* C27 as stated: every mutating call issued while an Issue is handled
\* targets that Issue's own pod or the deployment derived from its name,
\* also when the Plan is a Step recalled from memory.
C27_Original ==
    (pc \in {"act", "settle", "learn"}) =>
        \A i \in 1..Len(calls) :
            calls[i].cmd.target
                \in {issues[idx].pod_name, DeploymentOf(issues[idx].pod_name)}

\* Issue k of the cycle has been dealt with: its Plan was made and, when
\* acting is enabled, execute_plan has returned and the Attempt log ends
\* with one Attempt per Step of that Plan, in order
Completed(k) ==
    /\ Len(plan) >= 1
    /\ auto_remediate =>
         /\ execResult \in {"true", "false"}
         /\ Len(applied) >= 1
         /\ Len(memory.attempts) >= Len(plan)
         /\ \A j \in 1..Len(plan) :
               memory.attempts[Len(memory.attempts) - Len(plan) + j]
                 = MkAttempt(issues[k], Get(plan[j].action), Get(plan[j].details),
                             execResult = "true", Get(plan[j].reasoning))

\* C28: processing is strictly sequential. create_plan is reached for
\* Issue i+1 only when Issue i has been planned, acted on and learned (all
\* its store_attempt calls done), and the sleep and the next observe are
\* reached only when every Issue of the cycle has; nothing of one Issue or
\* cycle is left to run during the next.
C28_Sequential ==
    /\ (pc = "plan" /\ idx > 1) => Completed(idx - 1)
    /\ (pc \in {"sleep", "top"} /\ issues # <<>>) =>
          (idx = Len(issues) /\ Completed(idx))

\* the second Issue of a cycle is about to be planned after a two-Step
\* Plan for the first was executed and learned
C28_Witness ==
    /\ pc = "plan" /\ idx = 2 /\ auto_remediate
    /\ Len(plan) = 2
    /\ Len(memory.attempts) >= 2
    /\ Last(memory.attempts).issue = issues[1]

----------------------------------------------------------------------------
(* Claims about observe(), checked under SpecObserve *)

\* the container statuses of a snapshot that call for an Issue: not ready,
\* and waiting or terminated
FaultyAt(pods) ==
    UNION {{<<p, c>> : c \in {k \in 1..Len(pods[p].containerStatuses) :
                                 /\ ~pods[p].containerStatuses[k].ready
                                 /\ pods[p].containerStatuses[k].state
                                        \in {"waiting", "terminated"}}}
           : p \in 1..Len(pods)}

\* the position of faulty container a in snapshot order
RankIn(S, a) ==
    Cardinality({b \in S : b[1] < a[1] \/ (b[1] = a[1] /\ b[2] <= a[2])})

\* iss holds exactly one Issue per faulty container of pods, in order
OneIssuePerFaulty(pods, iss) ==
    LET S == FaultyAt(pods) IN
    /\ Len(iss) = Cardinality(S)
    /\ \A a \in S :
         LET cs == pods[a[1]].containerStatuses[a[2]]
             i == iss[RankIn(S, a)]
         IN /\ i.pod_name = pods[a[1]].name
            /\ i.namespace = Namespace
            /\ i.status = (IF cs.state = "waiting" THEN "Waiting" ELSE "Terminated")
            /\ i.reason = (IF IsSome(cs.reason) THEN Get(cs.reason) ELSE "Unknown")
            /\ cs.state = "terminated" =>
                  \E code \in {0, 137} :
                     /\ IsSome(cs.exitCode) => code = Get(cs.exitCode)
                     /\ i.message = "Exit code: " \o ToString(code) \o ". "
                                       \o GetOr(cs.message, "")

\* C24: Observe reads a snapshot and yields one Issue per container that is
\* not ready and waiting or terminated (status Waiting or Terminated, the
\* reported reason or "Unknown", the exit code in a terminated one's
\* message), none for any other container, and the empty list when the
\* snapshot is empty or could not be obtained; it issues no control-plane
\* call and leaves Pattern Memory and its file as they were.
C24_ObserveIssues ==
    [][pc = "o_idle" =>
         /\ ret'.arg.ok => OneIssuePerFaulty(ret'.arg.items, issues')
         /\ (~ret'.arg.ok \/ ret'.arg.items = <<>>) => issues' = <<>>
         /\ memory' = memory /\ file' = file /\ calls' = calls]_vars

\* two pods observed, a ready container next to a terminated one, a
\* waiting one in the other pod: two Issues
C24_Witness ==
    /\ pc = "o_done" /\ ret.arg.ok /\ Len(ret.arg.items) = 2
    /\ ret.arg.items[1].containerStatuses
           = <<ContainerReady, ContainerTerminated("OOMKilled", 137)>>
    /\ ret.arg.items[2].containerStatuses = <<ContainerWaitingBare>>
    /\ Len(issues) = 2
    /\ issues[1].status = "Terminated" /\ issues[1].pod_name = PodWeb
    /\ issues[2].reason = "Unknown" /\ issues[2].pod_name = PodDb

----------------------------------------------------------------------------
(* More claims about Planner.create_plan, checked under SpecPlanner *)

\* the image the context description declares
DeclaredImage == Get(ImageMatch(context.pod_description))

\* C25 as stated: for an image pull Issue whose declared image contains a
\* key of the misspelling dictionary, the Plan is a single high-confidence
\* fix_image_name Step whose new_image is the declared image with that
\* misspelling replaced by its correction.
C25_Original ==
    (/\ Planned
     /\ CurIssue.reason \in {"ImagePullBackOff", "ErrImagePull"}
     /\ IsSome(ImageMatch(context.pod_description))
     /\ \E k \in 1..Len(IMAGE_TYPO_MAP) :
           Contains(DeclaredImage, IMAGE_TYPO_MAP[k].typo))
    => /\ Len(plan) = 1
       /\ plan[1].action = Some("fix_image_name")
       /\ plan[1].confidence = Some("high")
       /\ \E k \in 1..Len(IMAGE_TYPO_MAP) :
             /\ Contains(DeclaredImage, IMAGE_TYPO_MAP[k].typo)
             /\ IsSome(plan[1].details)
             /\ Get(plan[1].details).new_image
                    = Some(Replace(DeclaredImage, IMAGE_TYPO_MAP[k].typo,
                                   IMAGE_TYPO_MAP[k].correct))

----------------------------------------------------------------------------
(* Claims about execute_plan, checked under SpecExecutor *)

\* a Step execute_plan has nothing to run for: a kind outside the
\* enumeration, or fix_image_name without a (non-empty) new_image
NotRunnable(step) ==
    \/ Get(step.action) \notin VALID_ACTIONS
    \/ /\ Get(step.action) = "fix_image_name"
       /\ Get(step.details).new_image \in {None, Some(<<>>)}

\* C29: a Step of an unknown action kind, and a fix_image_name Step without
\* new_image, is never executed: no control-plane call is issued for it, it
\* counts as unsuccessful (alone it makes execute_plan return False) and
\* execute_plan moves on to the next Step.
C29_UnknownNotExecuted ==
    \A k \in 1..Len(applied) :
        NotRunnable(plan[k]) =>
            /\ applied[k] = "nocall"
            /\ \A i \in 1..Len(calls) : calls[i].step # k
            /\ IF k < Len(plan)
               THEN (pc = "act" /\ stepIdx = k + 1) \/ Len(applied) > k
               ELSE execResult = "false" /\ pc = "learn"
            /\ execResult = "true" =>
                  \E j \in 1..Len(applied) : j # k /\ applied[j] = "ok"

\* a Plan of an unknown kind followed by a restart: the first Step made no
\* call, the second was run
C29_Witness ==
    /\ pc = "settle" /\ Len(plan) = 2
    /\ Get(plan[1].action) = "scale_deployment"
    /\ applied = <<"nocall", "ok">>
    /\ Len(calls) = 1 /\ calls[1].step = 2 /\ calls[1].cmd.op = "delete_pod"

\* the control-plane operation of an action kind
OpOf(action) ==
    CASE action = "restart_pod" -> "delete_pod"
      [] action = "update_env" -> "patch_env"
      [] action = "increase_memory" -> "patch_memory"
      [] action = "fix_image_name" -> "set_image"
      [] OTHER -> "none"

\* a pod name without its last two '-'-separated segments
DropLastTwo(pod_name) ==
    IF Len(pod_name) >= 2 THEN SubSeq(pod_name, 1, Len(pod_name) - 2) ELSE <<>>

\* every call of the log is the operation of its Step's kind, at most one
\* per Step, on the pod for a restart and otherwise on
\* details.deployment_name or, without it, on derived(pod name)
DispatchedTo(derived(_)) ==
    \A i \in 1..Len(calls) :
        LET step == plan[calls[i].step]
            d == Get(step.details)
        IN  /\ calls[i].cmd.op = OpOf(Get(step.action))
            /\ calls[i].cmd.op # "none"
            /\ \A j \in 1..Len(calls) : j # i => calls[j].step # calls[i].step
            /\ calls[i].cmd.target =
                  (IF Get(step.action) = "restart_pod" THEN issues[idx].pod_name
                   ELSE IF IsSome(d.deployment_name) THEN Get(d.deployment_name)
                   ELSE derived(issues[idx].pod_name))

\* C30 as stated: the derived target is the pod name without its last two
\* '-'-separated segments.
C30_Original == DispatchedTo(DropLastTwo)

\* the pod name without its last two segments, or its first segment alone
\* when it has fewer than three
DropLastTwoKeepFirst(pod_name) ==
    IF Len(pod_name) >= 3 THEN DropLastTwo(pod_name) ELSE <<pod_name[1]>>

\* C30: for each Step execute_plan invokes only the control-plane operation
\* of the Step's action kind; a restart targets the Issue's own pod, the
\* others details.deployment_name when present and otherwise the pod name
\* without its last two '-'-separated segments, or its first segment alone
\* when the name has fewer than three.
C30_Dispatch == DispatchedTo(DropLastTwoKeepFirst)

\* a Plan run on the two-segment pod: a patch on the derived name, then one
\* on the deployment its details name
C30_Witness ==
    /\ Len(calls) = 2
    /\ issues[idx].pod_name = PodDb
    /\ calls[1].cmd.op = "patch_memory" /\ calls[1].cmd.target = <<"db">>
    /\ calls[2].cmd.op = "patch_env" /\ calls[2].cmd.target = <<"api">>

----------------------------------------------------------------------------
(* Claims about learning in the loop, checked under Spec *)

\* mem holds, under key, a Pattern with a success whose stored Step (the
\* one recall returns) has an action kind of the enumeration
StoredValid(mem, key) ==
    /\ key \in DOMAIN mem.patterns
    /\ mem.patterns[key].success_count >= 1
    /\ mem.patterns[key].successful_actions # <<>>
    /\ Last(mem.patterns[key].successful_actions).action \in VALID_ACTIONS

\* C31: learning feedback. Once the memory holds for a signature a Pattern
\* with a success and a valid stored Step, it keeps doing so for the rest of
\* the run, and no create_plan call for an Issue of that signature invokes
\* the reasoning service.
C31_LearnedNoService ==
    [][/\ \A key \in DOMAIN memory.patterns :
            StoredValid(memory, key) => StoredValid(memory', key)
       /\ (/\ pc = "plan" /\ ~(pc' = "stopped")
           /\ StoredValid(memory, PatternKey(issues[idx])))
          => planInfo'.llm.kind = "notcalled"]_vars

\* a Plan learned from the reasoning service in one cycle is recalled for the
\* same signature in the next, without the service
C31_Witness ==
    /\ pc = "act" /\ iteration = 2
    /\ planInfo.tier = "memory" /\ planInfo.llm.kind = "notcalled"
    /\ StoredValid(memory, PatternKey(issues[idx]))
    /\ memory.attempts[1].reasoning = "raise limit"

----------------------------------------------------------------------------
(* More claims about Memory, checked under SpecMemory *)

RECURSIVE SumSuccessCounts(_, _)
\* the sum of success_count over the Patterns under keys
SumSuccessCounts(patterns, keys) ==
    IF keys = {} THEN 0
    ELSE LET k == CHOOSE x \in keys : TRUE
         IN  patterns[k].success_count + SumSuccessCounts(patterns, keys \ {k})

\* the positions of the successful Attempts of the log
SuccessfulAt(mem) == {i \in 1..Len(mem.attempts) : mem.attempts[i].success}

\* C32: in a memory that started empty, after any sequence of store_attempt
\* calls the success counters of all Patterns add up to the number of
\* successful Attempts in the log, there are at most that many Patterns, and
\* a Pattern exists for a signature exactly when the log holds a successful
\* Attempt for that signature.
C32_PatternsMatchLog ==
    (HasAttempts(memory) /\ HasPatterns(memory)) =>
        LET succ == SuccessfulAt(memory)
        IN  /\ SumSuccessCounts(memory.patterns, DOMAIN memory.patterns)
                  = Cardinality(succ)
            /\ Cardinality(DOMAIN memory.patterns) <= Cardinality(succ)
            /\ \A a \in MemoryAttempts :
                  PatternKey(a.issue) \in DOMAIN memory.patterns
                    <=> \E i \in succ :
                           /\ memory.attempts[i].issue.status = a.issue.status
                           /\ memory.attempts[i].issue.reason = a.issue.reason
            /\ \A k \in DOMAIN memory.patterns :
                  \E i \in succ : PatternKey(memory.attempts[i].issue) = k

\* two successes of one signature were stored: one Pattern, counter 2
C32_Witness ==
    /\ pc = "m_ready" /\ ret.op = "store" /\ ~ret.raised
    /\ HasAttempts(memory) /\ HasPatterns(memory)
    /\ Len(memory.attempts) = 2
    /\ SuccessfulAt(memory) = {1, 2}
    /\ DOMAIN memory.patterns = {"Waiting_CrashLoopBackOff"}
    /\ memory.patterns["Waiting_CrashLoopBackOff"].success_count = 2

----------------------------------------------------------------------------
(* Claims about the image-typo detectors, checked under SpecTypo *)

\* C33 as stated: a corrected reference returned by the image-typo detector
\* contains no key of the misspelling dictionary, and the detector run on
\* its own output finds nothing to fix.
C33_Original ==
    /\ (pc = "t_once" /\ IsSome(ret.value)) =>
          \A k \in 1..Len(IMAGE_TYPO_MAP) :
              ~Contains(Get(ret.value), IMAGE_TYPO_MAP[k].typo)
    /\ pc = "t_twice" => ret.value = None

----------------------------------------------------------------------------
(* Claims about the log-based remediation flow, checked under SpecLog *)

\* the lines of remediation.log
LogLines == IF IsSome(file) THEN Get(file) ELSE <<>>

\* the most recent line of the log for command has return code 0
LatestLineSucceeded(command) ==
    LET hits == {i \in 1..Len(LogLines) : LogLines[i].command = command}
    IN  /\ hits # {}
        /\ LogLines[CHOOSE i \in hits : \A j \in hits : j <= i].returncode = 0

\* C34 as stated: remediate_pod issues no control-plane command whose most
\* recent remediation-log entry has return code 0.
C34_Original ==
    [][\A i \in 1..Len(LogLines) :
          LatestLineSucceeded(LogLines[i].command)
             => calls' # Append(calls, LogLines[i].command)]_vars

====
